---- MODULE Spec2Model ----
(***************************************************************************)
(* tinyagent: one agent interface over three chat providers.  The module   *)
(* models the orchestration of BaseAgent.chat and the three provider       *)
(* agents (GPTAgent, ClaudeAgent, GeminiAgent): request assembly, the      *)
(* provider round, tool execution, the follow-up round, and the            *)
(* finish-chat bookkeeping (token usage, history).                         *)
(***************************************************************************)
EXTENDS Integers, Sequences, FiniteSets, TLC

\* ------------------------------------------------------------------ bounds
\* calls made on one agent (chat, add_user_history, add_ai_history)
MaxCalls == 2
\* tool-call blocks the agent is handed during one chat call (over all rounds)
MaxToolCalls == 2
\* Content deltas one streamed response is delivered in.
MaxChunks == 2
\* Characters one content delta carries at most.
MaxChunkLen == 1
\* Tool-call argument fragments one streamed response is delivered in.
MaxFragments == 3

Providers == {"gpt", "claude", "gemini"}

VARIABLES
  provider,        \* which agent class was constructed
  enable_history,  \* config.enable_history
  system_prompt,   \* config.system_prompt is non-empty
  history,         \* BaseAgent.history
  token_usage,     \* BaseAgent.token_usage
  pc,              \* position of the chat call: idle, request, tools, finalize
  callNo,          \* number of chat calls started
  args,            \* arguments of the running chat call
  assembled,       \* result of _assemble_request_messages for the running call
  messages,        \* the running message list of the call
  sent,            \* message list of the latest provider request
  round,           \* provider requests issued by the running call
  response,        \* ChatResponse of the latest completed round
  toolIdx,         \* position of the tool loop in the response's blocks
  tool_result_content, \* results collected by the tool loop
  executed,        \* ids of the tool calls whose run operation was started
  events,          \* what subscribers to the three event kinds saw in this call
  outcome,         \* how the latest chat call ended
  error,           \* the exception that ended it
  callUsage,       \* sum of the usage of the call's completed provider rounds
  usageBefore,     \* token_usage when the call started
  historyBefore,   \* history when the call started
  toolCalls,       \* tool-call blocks handed to the agent so far in this call
  adds,            \* add_*_history calls made
  clean,           \* no chat call has raised so far
  stream_events,   \* text deltas of the stream consumed so far, in arrival order
  content_cache,   \* the cache slot of _handle_stream
  tokens,          \* payloads an on_new_chat_token subscriber got in this call
  text,            \* response.message.content[0].text of the streamed response
  stream_broken,   \* the stream of this call ended before its terminal marker
  fold_pc,         \* reassembly of streamed tool calls: idle, stream, folded, parsed
  tool_calls_cache, \* GPT: choice_cache["message"]["tool_calls"] (None: no choice yet)
  json_cache,      \* Claude: content_block_cache["partial_json"] (None: empty slot)
  block_open,      \* Claude: a tool_use block was started and not yet stopped
  parsed_args,     \* the argument strings handed to json.loads, per tool call
  arg_fragments,   \* the argument fragments received, in arrival order
  client_pc,       \* one api_request / GeminiClient.chat call: idle, post, returned, raised
  retry,           \* the retry parameter of the running api_request
  data_stream,     \* data.get("stream") of the request
  statuses,        \* status codes of the responses to the POSTs sent, in order
  sleeps,          \* the time.sleep delays taken, in order
  client_result,   \* what the call returned: none, json, stream
  client_error,    \* the exception the call raised
  listeners,       \* SimpleEventManager.listeners: event kind -> subscribed callbacks
  subscribed,      \* every subscription made, in the order it was made
  publishes,       \* publish calls made
  last_publish,    \* the latest publish: its kind and the subscriptions made before it
  invoked,         \* the callbacks the latest publish invoked, in order
  publish_outcome, \* how the latest publish ended: none, returned, raised
  publisher_outcome, \* what became of the chat call that published: none, running, raised
  ctor_config,     \* whether the constructor call passed a config object
  ctor_kwargs,     \* the option names the constructor call passed as keywords
  ctor_outcome,    \* none, constructed, or the exception the constructor raised
  rt_pc,           \* conversion position: none, wire, back
  canonical,       \* the canonical content handed to the Gemini conversion
  wire,            \* the Gemini part it was serialised to
  restored,        \* the canonical content the part was converted back to
  parse_pc,        \* OpenAI message position: none, parsed, raised, inspected
  openai_msg,      \* the assistant message of an OpenAI response
  parsed_msg,      \* the canonical message _parse_openai_message made of it
  inspected,       \* the tool calls _process_chat found in the canonical message
  chat_config,     \* the agent's configuration and registry size
  chat_kwargs,     \* the per-call arguments of chat, each given or None
  request,         \* the parameters placed in the provider request
  sig_tool,        \* the tool handed to build_function_signature
  signature,       \* the descriptor it returned, or the exception it raised
  tagged,          \* the content block handed to a conversion: its tag and the direction
  converted,       \* what the conversion made of it
  tools_arg,       \* the tools argument of the constructor: its kind and its items
  self_tools,      \* self.tools, a set of name-tool entries; "unset" before construction
  live_pc,         \* where the chat call is: idle, post, stream, answer, tools, returned, raised
  live_retry,      \* the retry budget left for the request being made
  live_left,       \* stream events still to arrive, or tool calls still to run
  live_stream,     \* whether the call streams
  sse_lines,       \* the lines of the response body, as response.iter_lines() gives them
  sse_idx,         \* the line the loop handles next; 0 before the response is there
  yielded,         \* the events the generator yielded, each named by the number of its line
  sse_done,        \* the generator has ended
  blk_pc,          \* where the stream of content blocks stands
  blk_prefill,     \* whether _handle_stream was given a prefill_response
  blk_message,     \* message: the content blocks and usage folded so far
  blk_cache,       \* content_block_cache
  blk_sent,        \* the content blocks the provider streamed, with their deltas
  blk_tokens,      \* the payloads published as new chat tokens
  gem_pc,          \* where the Gemini stream stands
  gem_response,    \* response: None, or the first event with the later ones merged in
  gem_events,      \* the events the stream delivered so far
  fin_listeners,   \* event_manager.listeners of the agent
  fin_usage,       \* self.token_usage
  fin_history,     \* self.history
  fin_published,   \* the responses published as finish-chat so far
  fin_before,      \* token usage and history when the last finish-chat was published
  fin_seen,        \* what each subscriber found when the last finish-chat called it
  mode_pc,         \* where the Gemini chat call stands
  mode_arg,        \* the tool_mode argument of chat
  mode_params,     \* params, the keyword arguments of every client.chat of the call
  mode_requests,   \* the payloads GeminiClient.chat posted, in order
  agent_name,      \* the name argument of get_agent
  agent_provider,  \* the provider argument of get_agent ("None" when left out)
  agent            \* the class get_agent constructed, or that it raised

vars == <<provider, enable_history, system_prompt, history, token_usage, pc,
          callNo, args, assembled, messages, sent, round, response, toolIdx,
          tool_result_content, executed, events, outcome, error, callUsage,
          usageBefore, historyBefore, toolCalls, adds, clean,
          stream_events, content_cache, tokens, text, stream_broken,
          fold_pc, tool_calls_cache, json_cache, block_open, parsed_args,
          arg_fragments,
          client_pc, retry, data_stream, statuses, sleeps, client_result,
          client_error,
          listeners, subscribed, publishes, last_publish, invoked,
          publish_outcome, publisher_outcome,
          ctor_config, ctor_kwargs, ctor_outcome,
          rt_pc, canonical, wire, restored,
          parse_pc, openai_msg, parsed_msg, inspected,
          chat_config, chat_kwargs, request,
          sig_tool, signature,
          tagged, converted,
          tools_arg, self_tools,
          live_pc, live_retry, live_left, live_stream,
          sse_lines, sse_idx, yielded, sse_done,
          blk_pc, blk_prefill, blk_message, blk_cache, blk_sent, blk_tokens,
          gem_pc, gem_response, gem_events,
          fin_listeners, fin_usage, fin_history, fin_published, fin_before, fin_seen,
          mode_pc, mode_arg, mode_params, mode_requests,
          agent_name, agent_provider, agent>>

streamVars == <<stream_events, content_cache, tokens, text, stream_broken>>

\* The agent's chat call and its streamed text.
chatVars == <<provider, enable_history, system_prompt, history, token_usage, pc,
              callNo, args, assembled, messages, sent, round, response, toolIdx,
              tool_result_content, executed, events, outcome, error, callUsage,
              usageBefore, historyBefore, toolCalls, adds, clean, streamVars>>

\* Reassembly of streamed tool-call arguments.
foldVars == <<fold_pc, tool_calls_cache, json_cache, block_open, parsed_args,
              arg_fragments>>

\* What the chat call itself does not touch.
\* One request of a provider client.
apiVars == <<client_pc, retry, data_stream, statuses, sleeps, client_result,
             client_error>>

\* The event manager.
dispatchVars == <<listeners, subscribed, publishes, last_publish, invoked,
                  publish_outcome, publisher_outcome>>

\* The constructor call.
ctorVars == <<ctor_config, ctor_kwargs, ctor_outcome>>

\* The Gemini content conversion.
rtVars == <<rt_pc, canonical, wire, restored>>

\* The OpenAI message conversion.
parseVars == <<parse_pc, openai_msg, parsed_msg, inspected>>

\* The generation parameters of a request.
paramVars == <<chat_config, chat_kwargs, request>>

\* The function signature built for a tool.
sigVars == <<sig_tool, signature>>

\* The conversion of one tagged content block.
tagVars == <<tagged, converted>>

\* The tool registry built by the constructor.
registryVars == <<tools_arg, self_tools>>

\* The progress of one chat call.
liveVars == <<live_pc, live_retry, live_left, live_stream>>

\* The streaming client reading a response body.
sseVars == <<sse_lines, sse_idx, yielded, sse_done>>

\* ClaudeAgent._handle_stream folding a stream of content blocks.
blkVars == <<blk_pc, blk_prefill, blk_message, blk_cache, blk_sent, blk_tokens>>

\* GeminiAgent._handle_stream folding stream events into one response.
gemVars == <<gem_pc, gem_response, gem_events>>

\* The finish-chat subscribers and the bookkeeping they observe.
finVars == <<fin_listeners, fin_usage, fin_history, fin_published, fin_before, fin_seen>>

\* GeminiAgent: the tool mode over the rounds of one chat call.
modeVars == <<mode_pc, mode_arg, mode_params, mode_requests>>

\* get_agent: the arguments of a call and what it gave.
factoryVars == <<agent_name, agent_provider, agent>>

sideVars == <<foldVars, apiVars, dispatchVars, ctorVars, rtVars, parseVars, paramVars, sigVars, tagVars, registryVars, liveVars, sseVars, blkVars, gemVars, finVars, modeVars, factoryVars>>

\* What each component leaves alone.
notFold == <<chatVars, apiVars, dispatchVars, ctorVars, rtVars, parseVars, paramVars, sigVars, tagVars, registryVars, liveVars, sseVars, blkVars, gemVars, finVars, modeVars, factoryVars>>

notApi == <<chatVars, foldVars, dispatchVars, ctorVars, rtVars, parseVars, paramVars, sigVars, tagVars, registryVars, liveVars, sseVars, blkVars, gemVars, finVars, modeVars, factoryVars>>

notDispatch == <<chatVars, foldVars, apiVars, ctorVars, rtVars, parseVars, paramVars, sigVars, tagVars, registryVars, liveVars, sseVars, blkVars, gemVars, finVars, modeVars, factoryVars>>

notCtor == <<chatVars, foldVars, apiVars, dispatchVars, rtVars, parseVars, paramVars, sigVars, tagVars, registryVars, liveVars, sseVars, blkVars, gemVars, finVars, modeVars, factoryVars>>

notRt == <<chatVars, foldVars, apiVars, dispatchVars, ctorVars, parseVars, paramVars, sigVars, tagVars, registryVars, liveVars, sseVars, blkVars, gemVars, finVars, modeVars, factoryVars>>

notParse == <<chatVars, foldVars, apiVars, dispatchVars, ctorVars, rtVars, paramVars, sigVars, tagVars, registryVars, liveVars, sseVars, blkVars, gemVars, finVars, modeVars, factoryVars>>

notParam == <<chatVars, foldVars, apiVars, dispatchVars, ctorVars, rtVars, parseVars, sigVars, tagVars, registryVars, liveVars, sseVars, blkVars, gemVars, finVars, modeVars, factoryVars>>

notSig == <<chatVars, foldVars, apiVars, dispatchVars, ctorVars, rtVars, parseVars, paramVars, tagVars, registryVars, liveVars, sseVars, blkVars, gemVars, finVars, modeVars, factoryVars>>

notTag == <<chatVars, foldVars, apiVars, dispatchVars, ctorVars, rtVars, parseVars, paramVars, sigVars, registryVars, liveVars, sseVars, blkVars, gemVars, finVars, modeVars, factoryVars>>

notRegistry == <<chatVars, foldVars, apiVars, dispatchVars, ctorVars, rtVars, parseVars, paramVars, sigVars, tagVars, liveVars, sseVars, blkVars, gemVars, finVars, modeVars, factoryVars>>

notLive == <<chatVars, foldVars, apiVars, dispatchVars, ctorVars, rtVars, parseVars, paramVars, sigVars, tagVars, registryVars, sseVars, blkVars, gemVars, finVars, modeVars, factoryVars>>

notSse == <<chatVars, foldVars, apiVars, dispatchVars, ctorVars, rtVars, parseVars, paramVars, sigVars, tagVars, registryVars, liveVars, blkVars, gemVars, finVars, modeVars, factoryVars>>

notBlk == <<chatVars, foldVars, apiVars, dispatchVars, ctorVars, rtVars, parseVars, paramVars, sigVars, tagVars, registryVars, liveVars, sseVars, gemVars, finVars, modeVars, factoryVars>>

notGem == <<chatVars, foldVars, apiVars, dispatchVars, ctorVars, rtVars, parseVars, paramVars, sigVars, tagVars, registryVars, liveVars, sseVars, blkVars, finVars, modeVars, factoryVars>>

notFin == <<chatVars, foldVars, apiVars, dispatchVars, ctorVars, rtVars, parseVars, paramVars, sigVars, tagVars, registryVars, liveVars, sseVars, blkVars, gemVars, modeVars, factoryVars>>

notMode == <<chatVars, foldVars, apiVars, dispatchVars, ctorVars, rtVars, parseVars, paramVars, sigVars, tagVars, registryVars, liveVars, sseVars, blkVars, gemVars, finVars, factoryVars>>

notFactory == <<chatVars, foldVars, apiVars, dispatchVars, ctorVars, rtVars, parseVars, paramVars, sigVars, tagVars, registryVars, liveVars, sseVars, blkVars, gemVars, finVars, modeVars>>

\* ------------------------------------------------------- messages, content
\* A content block: TextContent, ImageContent, ToolUseContent (id, the tool
\* it names, its argument string) and ToolResultContent (id, result).
\* name is the tool a tool-use block names; payload is the block's text,
\* argument string or result.
Block(type, id, name, payload) ==
  [type |-> type, id |-> id, name |-> name, payload |-> payload]

NoId == <<0, 0>>
TextContent == Block("text", NoId, "none", "text")
ImageContent == Block("image_url", NoId, "none", "image")
PrefillContent == Block("text", NoId, "none", "prefill")

\* Message(role, content, tool_calls); cls is the class (Message or
\* ToolUseResultMessage), call says which chat call the message belongs to
\* (0: none), has_content is FALSE when content is None.
Message(role, cls, call, has_content, content, tool_calls) ==
  [role |-> role, cls |-> cls, call |-> call,
   has_content |-> has_content, content |-> content, tool_calls |-> tool_calls]

NoMessage == Message("none", "none", 0, FALSE, <<>>, <<>>)

from_text(role, call) ==
  Message(role, "Message", call, TRUE, <<TextContent>>, <<>>)

from_image(role, call) ==
  Message(role, "Message", call, TRUE, <<ImageContent>>, <<>>)

TokenUsage(p, c) == [prompt |-> p, completion |-> c]

\* TokenUsage.update(usage)
update(self, usage) ==
  TokenUsage(self.prompt + usage.prompt, self.completion + usage.completion)

ChatResponse(message, usage, input_message) ==
  [message |-> message, usage |-> usage, input_message |-> input_message]

NoResponse == ChatResponse(NoMessage, TokenUsage(0, 0), NoMessage)

\* ------------------------------------------------------- provider responses
\* The agent's tool registry holds one tool, "calc"; "nope" is a name that
\* is not in the registry.
Registry == {"calc"}

\* A tool call as the provider sends it: the tool it names and whether its
\* argument string is valid JSON (Claude and Gemini send a decoded object).
WireCalls(p) ==
  IF p = "gpt"
  THEN {[name |-> "calc", json |-> TRUE], [name |-> "calc", json |-> FALSE],
        [name |-> "nope", json |-> TRUE]}
  ELSE {[name |-> "calc", json |-> TRUE], [name |-> "nope", json |-> TRUE]}

WireCallSeqs(p, n) ==
  UNION {[1..k -> WireCalls(p)] : k \in 0..n}

Usages == {TokenUsage(3, 2)}

\* One provider response: a text content or none, tool calls or none, usage.
WireResponses(p, n) ==
  [text : BOOLEAN, tools : WireCallSeqs(p, n), usage : Usages]

ToolUse(w, rnd, i) ==
  Block("function", <<rnd, i>>, w.name, IF w.json THEN "json" ELSE "notjson")

ToolUses(tools, rnd) == [i \in 1..Len(tools) |-> ToolUse(tools[i], rnd, i)]

IsToolUse(b) == b.type = "function"

\* llm/gpt/agent.py _parse_openai_message: a string content wins and the
\* tool_calls are then not read.
ParseNeverFails(w) == FALSE

ParseFailsGPT(w) == ~w.text /\ w.tools = <<>>

_parse_openai_message(w, call, rnd) ==
  IF w.text
  THEN Message("assistant", "Message", call, TRUE, <<TextContent>>, <<>>)
  ELSE Message("assistant", "Message", call, FALSE, <<>>,
               ToolUses(w.tools, rnd))

\* llm/claude/agent.py _assemble_chat_response, and llm/gemini/schema.py
\* GeminiContent.to_standard_message: one block per wire block, in order.
ParseBlocks(w, call, rnd) ==
  Message("assistant", "Message", call, TRUE,
          (IF w.text THEN <<TextContent>> ELSE <<>>) \o ToolUses(w.tools, rnd),
          <<>>)

\* GeminiContent.parts is None when the candidate carries no parts.
ParseFailsGemini(w) == ~w.text /\ w.tools = <<>>

\* The tool-call blocks the orchestration inspects.
ToolCallsOf(p, message) ==
  IF p = "gpt"
  THEN message.tool_calls
  ELSE SelectSeq(message.content, IsToolUse)

HasToolCalls(p, message) == ToolCallsOf(p, message) # <<>>

InitParse ==
  /\ parse_pc = "none"
  /\ openai_msg = [text |-> FALSE, tools |-> <<>>, usage |-> TokenUsage(0, 0)]
  /\ parsed_msg = NoMessage
  /\ inspected = <<>>

\* ------------------------------------------------------ request parameters
\* Temperatures in tenths; GeminiClient.temperature is 0.1.
GeminiTemperature == 1

\* GeminiClient.max_output_tokens
GeminiMaxOutputTokens == 1024

Temperatures == {0, 7}

MaxTokenValues == {0, 256}

\* An optional argument: a value, or None.
Given(value) == [given |-> TRUE, value |-> value]

\* None, written with a value of the argument's type that is never read.
NotGiven(unread) == [given |-> FALSE, value |-> unread]

Optional(values, unread) == {NotGiven(unread)} \cup {Given(v) : v \in values}

\* BaseAgent.chat(temperature=None, max_tokens=None, stream=None)
ChatKwargs ==
  [temperature : Optional(Temperatures, 0), max_tokens : Optional(MaxTokenValues, 0),
   stream : Optional(BOOLEAN, FALSE)]

\* BaseConfig fields and the number of registered tools.
ChatConfigs ==
  [temperature : Temperatures, max_tokens : MaxTokenValues, stream : BOOLEAN,
   use_tools : BOOLEAN, tools : {0, 1}]

\* utils.get_param: the argument when it is there and not None, else the default.
get_param(kwargs, key, default) ==
  IF kwargs[key].given THEN kwargs[key].value ELSE default

\* the agent's _chat: `params = {...}` and `if self.config.use_tools and self.tools`
ChatParams(config, kwargs) ==
  [temperature |-> get_param(kwargs, "temperature", config.temperature),
   max_tokens |-> get_param(kwargs, "max_tokens", config.max_tokens),
   stream |-> get_param(kwargs, "stream", config.stream),
   tools |-> config.use_tools /\ config.tools > 0]

\* Python's `a or b` on numbers.
Or(a, b) == IF a = 0 THEN b ELSE a

\* OpenAIClient.chat and AnthropicClient.chat put the parameters into the
\* request as they are; GeminiClient.chat builds generationConfig with
\* `temperature or self.temperature`, `max_output_tokens or self.max_output_tokens`.
ClientRequest(p, params) ==
  IF p = "gemini"
  THEN [params EXCEPT !.temperature = Or(@, GeminiTemperature),
                      !.max_tokens = Or(@, GeminiMaxOutputTokens)]
  ELSE params

NoRequest == [temperature |-> 0, max_tokens |-> 0, stream |-> FALSE, tools |-> FALSE,
              sent |-> FALSE]

InitParam ==
  /\ chat_config = [temperature |-> 0, max_tokens |-> 0, stream |-> FALSE,
                    use_tools |-> FALSE, tools |-> 0]
  /\ chat_kwargs = [temperature |-> NotGiven(0), max_tokens |-> NotGiven(0),
                    stream |-> NotGiven(FALSE)]
  /\ request = NoRequest

\* ------------------------------------------------------ function signatures
MaxParams == 2

\* The annotations a parameter of _run can carry; "empty" is no annotation.
Annotations ==
  {"int", "float", "str", "bool", "list", "dict", "tuple", "set", "frozenset",
   "NoneType", "datetime", "empty"}

\* tools/tool.py TYPE_MAP
TypeMapStrings(annotation) == "string"

TYPE_MAP(annotation) ==
  CASE annotation \in {"int", "float"} -> "number"
    [] annotation = "str" -> "string"
    [] annotation = "bool" -> "boolean"
    [] annotation = "list" -> "list"
    [] annotation \in {"dict", "tuple", "set", "frozenset"} -> "object"
    [] annotation = "NoneType" -> "null"

InTypeMap(annotation) ==
  annotation \in {"int", "float", "str", "bool", "list", "dict", "tuple", "set",
                  "frozenset", "NoneType"}

\* The parameters of a tool's _run, and the fields of an argument schema,
\* each a sequence in declaration order.
Params == [annotation : Annotations, has_default : BOOLEAN]

Fields == [type : {"string", "integer"}, required : BOOLEAN]

SeqsUpTo(S, n) == UNION {[1..k -> S] : k \in 0..n}

SchemaTool(fields) == [args_schema |-> TRUE, fields |-> fields, params |-> <<>>]

PlainTool(params) == [args_schema |-> FALSE, fields |-> <<>>, params |-> params]

\* The positions of a sequence that satisfy Test, in order.
RECURSIVE Positions(_, _, _)
Positions(seq, Test(_), i) ==
  IF i > Len(seq) THEN <<>>
  ELSE (IF Test(seq[i]) THEN <<i>> ELSE <<>>) \o Positions(seq, Test, i + 1)

\* pydantic's model_json_schema(): "properties" always, "required" only when
\* some field is required.
model_json_schema(fields) ==
  [properties |-> [i \in DOMAIN fields |-> fields[i].type],
   has_required |-> \E i \in DOMAIN fields : fields[i].required,
   required |-> Positions(fields, LAMBDA f : f.required, 1)]

Signature(result, properties, required) ==
  [outcome |-> result, properties |-> properties, required |-> required]

\* tools/tool.py build_function_signature
build_function_signature(tool) ==
  IF tool.args_schema
  THEN LET schema == model_json_schema(tool.fields)
       IN IF schema.has_required
          THEN Signature("built", schema.properties, schema.required)
          ELSE Signature("KeyError", <<>>, <<>>)
  ELSE IF \E i \in DOMAIN tool.params : ~InTypeMap(tool.params[i].annotation)
       THEN Signature("AssertionError", <<>>, <<>>)
       ELSE Signature("built",
                      [i \in DOMAIN tool.params |-> TYPE_MAP(tool.params[i].annotation)],
                      Positions(tool.params, LAMBDA q : ~q.has_default, 1))

InitSig ==
  /\ sig_tool = PlainTool(<<>>)
  /\ signature = Signature("none", <<>>, <<>>)

\* ------------------------------------------------------------ content tags
\* The kinds of content block: the four the agents use, and others.
SupportedTags == {"text", "image", "tool_use", "tool_result"}

ContentTags == SupportedTags \cup {"audio", "thinking", "document", "video", "file"}

\* The outcome of converting a block: a block of the target form, the block
\* itself unchanged, or an exception and the tag its message shows.
Converted == [result |-> "converted", names |-> "none"]

Unchanged == [result |-> "unchanged", names |-> "none"]

Rejected(exception, tag) == [result |-> exception, names |-> tag]

\* llm/claude/agent.py _parse_claude_content; ImageContent(**content) lacks
\* the image_url field a Claude image block does not have.
_parse_claude_content(tag) ==
  CASE tag \in {"text", "tool_use"} -> Converted
    [] tag = "image" -> Rejected("ValidationError", "none")
    [] OTHER -> Rejected("Exception", tag)

\* llm/gemini/schema.py: GeminiContent.parts is a union of the part classes,
\* to_standard_content of each class.
GeminiParse(tag) ==
  CASE tag \in {"text", "image", "audio", "tool_use"} -> Converted
    [] tag = "tool_result" -> Rejected("NotImplementedError", "none")
    [] OTHER -> Rejected("ValidationError", tag)

\* llm/gemini/client.py _serialize_content: the isinstance chain and its else.
GeminiSerialize(tag) ==
  CASE tag \in {"text", "image", "audio", "tool_use"} -> Converted
    [] OTHER -> Rejected("ValueError", tag)

\* llm/claude/agent.py _convert_message_to_claude_format: an ImageContent is
\* replaced, every other block stays in the message as it is.
_convert_message_to_claude_format(tag) ==
  IF tag = "image" THEN Converted ELSE Unchanged

\* llm/gpt/client.py OpenAIClient.chat: msg.model_dump(exclude_none=True)
OpenAISerialize(tag) == Unchanged

ParseContent(p, tag) ==
  IF p = "claude" THEN _parse_claude_content(tag) ELSE GeminiParse(tag)

SerializeContent(p, tag) ==
  CASE p = "gemini" -> GeminiSerialize(tag)
    [] p = "claude" -> _convert_message_to_claude_format(tag)
    [] p = "gpt" -> OpenAISerialize(tag)

InitTag ==
  /\ tagged = [direction |-> "none", tag |-> "none"]
  /\ converted = [result |-> "none", names |-> "none"]

\* ------------------------------------------------------------ tool registry
MaxTools == 3

\* A tool object: its name and which object it is.
ToolObject(name, n) == [name |-> name, object |-> n]

\* Lists of up to MaxTools tools; the n-th item is object n.
ToolLists ==
  UNION {{[i \in 1..k |-> ToolObject(names[i], i)] : names \in [1..k -> {"calc", "time"}]}
           : k \in 0..MaxTools}

\* The kinds of value passed as tools.
ToolsArgs ==
  [kind : {"list", "tuple", "dict"}, items : ToolLists]
    \cup {[kind |-> "None", items |-> <<>>]}

\* One entry of the registry dict.
Entry(key, tool) == [key |-> key, tool |-> tool]

\* dict assignment: the entry of that key is replaced.
SetItemFirst(d, key, tool) ==
  IF \E e \in d : e.key = key THEN d ELSE d \cup {Entry(key, tool)}

SetItem(d, key, tool) ==
  {e \in d : e.key # key} \cup {Entry(key, tool)}

\* {tool.name: tool for tool in tools}
RECURSIVE DictOfList(_, _)
DictOfList(items, d) ==
  IF items = <<>> THEN d
  ELSE DictOfList(Tail(items), SetItem(d, items[1].name, items[1]))

\* BaseAgent.__init__: a list becomes a dict by name, a dict is taken as it
\* is (written here as the dict its items form, keyed by name), anything
\* else gives an empty registry.
BuildRegistry(arg) ==
  CASE arg.kind = "list" -> DictOfList(arg.items, {})
    [] arg.kind = "dict" -> DictOfList(arg.items, {})
    [] OTHER -> {}

InitRegistry ==
  /\ tools_arg = [kind |-> "unset", items |-> <<>>]
  /\ self_tools = {}

\* ------------------------------------------------------- progress of a chat
InitLive ==
  /\ live_pc = "idle"
  /\ live_retry = 0
  /\ live_left = 0
  /\ live_stream = FALSE

\* --------------------------------------------------------- streaming client
MaxLines == 4

\* The lines of a server-sent-event body: a blank line, a line without the
\* "data:" prefix (an "event:" line, a comment), a "data:" line that carries
\* an event, and the "data:" line that ends the stream ("[DONE]" for OpenAI,
\* the message_stop event for Anthropic).
LineKinds == {"blank", "event", "data", "end"}

Bodies == UNION {[1..k -> LineKinds] : k \in 0..MaxLines}

\* `if line:` and `if event_data.startswith("data:")`
IsDataLine(kind) == kind \in {"data", "end"}

\* Whether the loop yields an event for the line: OpenAI breaks on "[DONE]"
\* before parsing it; Anthropic and Gemini yield every "data:" line.
Yields(p, kind) ==
  IF p = "gpt" THEN kind = "data" ELSE IsDataLine(kind)

\* Whether the loop ends at the line: "[DONE]" for OpenAI, a message_stop
\* event for Anthropic; the Gemini loop has no break.
BreaksNever(p, kind) == FALSE

Breaks(p, kind) == p \in {"gpt", "claude"} /\ kind = "end"

InitSse ==
  /\ sse_lines = <<>>
  /\ sse_idx = 0
  /\ yielded = <<>>
  /\ sse_done = FALSE

\* ------------------------------------------------- streamed content blocks
\* Content blocks of one streamed Anthropic message.
MaxBlocks == 2
\* Deltas one content block is delivered in.
MaxDeltas == 2

BlockTypes == {"text", "tool_use"}

\* The text of one content_block_delta (text or partial_json).
BlockDeltas == {<<"a">>, <<"b">>}

\* output_tokens of a message_delta event.
OutputCounts == {2, 5}

Usage(input_tokens, output_tokens) ==
  [input_tokens |-> input_tokens, output_tokens |-> output_tokens]

\* message_start: payload["message"]["usage"]
StartUsage == Usage(3, 1)

\* A content block of the message: a text block's text, a tool_use block's input.
ContentBlock(type, value) == [type |-> type, value |-> value]

\* json.loads("{}"), the input a tool_use block starts with
EmptyInput == <<"{}">>

\* payload["content_block"] of content_block_start
StartBlock(type) == ContentBlock(type, IF type = "text" THEN <<>> ELSE EmptyInput)

\* content_block_cache: the delta that seeded it, and its text or partial_json.
BlockCache(type, value) == [type |-> type, value |-> value]

NoBlockCache == BlockCache("none", <<"None">>)

BlockMessage(content, usage) == [content |-> content, usage |-> usage]

InitBlk ==
  /\ blk_pc = "idle"
  /\ blk_prefill = FALSE
  /\ blk_message = BlockMessage(<<>>, Usage(0, 0))
  /\ blk_cache = NoBlockCache
  /\ blk_sent = <<>>
  /\ blk_tokens = <<>>

\* ------------------------------------------------------ Gemini stream events
\* Events of one Gemini stream.
MaxEvents == 2
\* Parts one event's content carries at most.
MaxEventParts == 2

\* llm/gemini/schema.py GeminiTextPart, GeminiToolCallPart, GeminiInlinePart
GeminiPart(kind, value) == [kind |-> kind, value |-> value]

GeminiParts ==
  {GeminiPart("text", t) : t \in {<<"a">>, <<"b">>}}
    \cup {GeminiPart("functionCall", <<"calc">>), GeminiPart("inlineData", <<"png">>)}

\* The provider sends a chunk of text as one part.
NoAdjacentTexts(parts) ==
  \A i \in 1..(Len(parts) - 1) : ~(parts[i].kind = "text" /\ parts[i + 1].kind = "text")

\* GeminiResponse: candidates[0].content.parts and usage_metadata.
GeminiResponse(parts, usage_metadata) ==
  [parts |-> parts, usage_metadata |-> usage_metadata]

GeminiEvents ==
  {GeminiResponse(parts, u) :
     parts \in {ps \in UNION {[1..k -> GeminiParts] : k \in 0..MaxEventParts} :
                  NoAdjacentTexts(ps)},
     u \in {4, 9}}

\* response = None
NoGeminiResponse == GeminiResponse(<<GeminiPart("None", <<>>)>>, 0)

\* GeminiTextPart.update; the other part classes raise NotImplementedError.
PartUpdateRaises(part) == part.kind # "text"

PartUpdate(part, another) == GeminiPart("text", part.value \o another.value)

\* GeminiContent.update: self.parts[-1] does not exist for an empty list;
\* a first part of the last part's class is merged into it, which only a
\* text part supports.
ContentUpdateRaises(parts, another) ==
  /\ another # <<>>
  /\ \/ parts = <<>>
     \/ /\ another[1].kind = parts[Len(parts)].kind
        /\ PartUpdateRaises(parts[Len(parts)])

ContentUpdate(parts, another) ==
  IF another = <<>> THEN parts
  ELSE IF another[1].kind = parts[Len(parts)].kind
       THEN [parts EXCEPT ![Len(parts)] = PartUpdate(@, another[1])] \o Tail(another)
       ELSE parts \o another

InitGem ==
  /\ gem_pc = "idle"
  /\ gem_response = NoGeminiResponse
  /\ gem_events = <<>>

\* --------------------------------------------------- finish-chat subscribers
\* The state a subscriber finds when publish calls it.
Seen(callback, usage, h) == [callback |-> callback, usage |-> usage, history |-> h]

Bookkeeping(u, h) == [usage |-> u, history |-> h]

InitFin ==
  /\ fin_listeners = [k \in {"NEW_CHAT_TOKEN", "USE_TOOL", "FINISH_CHAT"} |->
                        IF k = "FINISH_CHAT"
                        THEN <<[kind |-> "FINISH_CHAT", n |-> 0, raises |-> FALSE]>>
                        ELSE <<>>]
  /\ fin_usage = [prompt |-> 0, completion |-> 0]
  /\ fin_history = <<>>
  /\ fin_published = <<>>
  /\ fin_before = Bookkeeping([prompt |-> 0, completion |-> 0], <<>>)
  /\ fin_seen = <<>>

\* ------------------------------------------------------------ Gemini tool mode
\* Provider requests of one Gemini chat call.
MaxRounds == 3

\* gemini/schema.py GeminiToolMode
GeminiToolModes == {"NONE", "ANY", "AUTO"}

\* GeminiAgent._chat: params, with tool_mode only `if tool_mode:`.
GeminiParams(tool_mode, temperature, max_tokens, with_tools) ==
  [tool_mode |-> IF tool_mode = "None" THEN "unset" ELSE tool_mode,
   temperature |-> temperature, max_tokens |-> max_tokens, tools |-> with_tools]

\* GeminiAgent._process_chat: `if params.get("tool_mode"): params.pop("tool_mode")`
KeepToolMode(params) == params

PopToolMode(params) == [params EXCEPT !.tool_mode = "unset"]

\* GeminiClient.chat: tool_mode defaults to AUTO; tool_config is part of the
\* payload only with tools; generationConfig uses `or` with the client's values.
GeminiPayload(params) ==
  [temperature |-> Or(params.temperature, GeminiTemperature),
   max_tokens |-> Or(params.max_tokens, GeminiMaxOutputTokens),
   tools |-> params.tools,
   mode |-> IF ~params.tools THEN "absent"
            ELSE IF params.tool_mode = "unset" THEN "AUTO" ELSE params.tool_mode]

InitMode ==
  /\ mode_pc = "idle"
  /\ mode_arg = "None"
  /\ mode_params = GeminiParams("None", 0, 0, FALSE)
  /\ mode_requests = <<>>

\* ------------------------------------------------------------- agent factory
\* Model names, as a known or unknown first part and the rest of the name.
AgentNames ==
  {<<"gpt">>, <<"gpt", "-4o">>, <<"o1", "-mini">>, <<"claude">>, <<"claude", "-3">>,
   <<"gemini">>, <<"gemini", "-pro">>, <<"llama", "-3">>}

AgentProviders == {"None", "openai", "anthropic", "gemini"}

\* str.startswith
startswith(name, prefix) == name # <<>> /\ name[1] = prefix

\* What get_agent gives: the agent class, or the exception.
Constructed(cls) == [result |-> "returned", cls |-> cls]

Unsupported == [result |-> "raised", cls |-> "Exception"]

\* tinyagent.get_agent(name, provider): the branches in the order of the code.
get_agent(name, given) ==
  IF given = "openai" \/ startswith(name, "gpt") \/ startswith(name, "o1")
  THEN Constructed("GPTAgent")
  ELSE IF given = "anthropic" \/ startswith(name, "claude")
  THEN Constructed("ClaudeAgent")
  ELSE IF given = "gemini"
  THEN Constructed("GeminiAgent")
  ELSE Unsupported

InitFactory ==
  /\ agent_name = <<>>
  /\ agent_provider = "None"
  /\ agent = [result |-> "none", cls |-> "none"]

\* ------------------------------------------------------------------ events
\* One publish on the event manager: the event kind, the provider round it
\* belongs to, the tool call it announces, and what the payload is
\* ("ChatResponse" or "str" for finish-chat) with the response it carries.
Event(type, rnd, id, payload, resp) ==
  [type |-> type, round |-> rnd, id |-> id, payload |-> payload, response |-> resp]

NewChatToken(rnd) == Event("NEW_CHAT_TOKEN", rnd, NoId, "content", NoResponse)
UseTool(id) == Event("USE_TOOL", id[1], id, "args", NoResponse)
FinishChat(resp) == Event("FINISH_CHAT", 0, NoId, "ChatResponse", resp)
FinishChatStr == Event("FINISH_CHAT", 0, NoId, "str", NoResponse)

\* --------------------------------------------------------- request assembly
SystemMessage == Message("system", "Message", 0, TRUE, <<TextContent>>, <<>>)

\* base.py BaseAgent._assemble_request_messages
AssembleIgnoringFlag(msgs, include_system) ==
  (IF include_system /\ system_prompt THEN <<SystemMessage>> ELSE <<>>)
    \o history \o msgs

_assemble_request_messages(msgs, include_system) ==
  (IF include_system /\ system_prompt THEN <<SystemMessage>> ELSE <<>>)
    \o (IF enable_history THEN history ELSE <<>>)
    \o msgs

\* llm/claude/agent.py ClaudeAgent._assemble_request_messages
Claude_assemble_request_messages(msgs) ==
  (IF enable_history THEN history ELSE <<>>) \o msgs

Assemble(p, msgs) ==
  CASE p = "gpt" -> _assemble_request_messages(msgs, TRUE)
    [] p = "gemini" -> _assemble_request_messages(msgs, FALSE)
    [] p = "claude" -> Claude_assemble_request_messages(msgs)

PrefillMessage(call) ==
  Message("assistant", "Message", call, TRUE, <<PrefillContent>>, <<>>)

\* ----------------------------------------------------------------- actions
\* ---------------------------------------------------------- streamed text
\* Text is a sequence of characters; None is the empty cache slot.
Alphabet == {"a", "b"}

RECURSIVE Texts(_)
Texts(n) ==
  IF n = 0 THEN {<<>>}
  ELSE Texts(n - 1) \cup {Append(t, c) : t \in Texts(n - 1), c \in Alphabet}

\* The text one content delta of a stream can carry (possibly empty).
Deltas == Texts(MaxChunkLen)

None == <<"None">>

\* The prefill_response a ClaudeAgent chat call was given.
PrefillText == <<"p">>

RECURSIVE Concat(_)
Concat(seq) == IF seq = <<>> THEN <<>> ELSE seq[1] \o Concat(Tail(seq))

\* One text delta handled by _handle_stream: the cache slot afterwards and
\* the payloads passed to publish_new_chat_token.
Fold(cache, publish) == [cache |-> cache, publish |-> publish]

\* GPTAgent._handle_stream: the first delta seeds the cache and is published
\* when its content is truthy; later deltas are appended (or replace a falsy
\* cache) and are always published.
GPT_handle_stream(cache, delta) ==
  IF cache = None
  THEN Fold(delta, IF delta # <<>> THEN <<delta>> ELSE <<>>)
  ELSE Fold(IF cache # <<>> THEN cache \o delta ELSE delta, <<delta>>)

\* GeminiAgent._handle_stream: parts[0].text is published, then the event
\* becomes the response or is merged into it (GeminiTextPart.update).
Gemini_handle_stream(cache, delta) ==
  Fold(IF cache = None THEN delta ELSE cache \o delta, <<delta>>)

\* ClaudeAgent._handle_stream, text_delta: the first delta becomes the cache
\* (the same object), the prefill is prepended to it, and the delta's text,
\* by then prefixed, is published; later deltas are appended and published.
Claude_handle_stream(cache, delta, prefill) ==
  IF cache = None
  THEN LET first == IF prefill THEN PrefillText \o delta ELSE delta
       IN Fold(first, <<first>>)
  ELSE Fold(cache \o delta, <<delta>>)

HandleDelta(p, cache, delta, prefill) ==
  CASE p = "gpt" -> GPT_handle_stream(cache, delta)
    [] p = "gemini" -> Gemini_handle_stream(cache, delta)
    [] p = "claude" -> Claude_handle_stream(cache, delta, prefill)

\* The text of the response the non-streaming path builds from the same
\* provider content (ClaudeAgent._client_chat prepends the prefill).
NonStreamText(p, deltas, prefill) ==
  IF p = "claude" /\ prefill THEN PrefillText \o Concat(deltas)
  ELSE Concat(deltas)

\* ------------------------------------------------ streamed tool-call arguments
\* One entry of a delta's tool_calls list: the index of the call it belongs
\* to (0-based, as on the wire) and a fragment of its argument string.
Func(index, arguments) == [index |-> index, arguments |-> arguments]

Funcs == {Func(i, a) : i \in 0..(MaxToolCalls - 1), a \in Deltas}

\* The tool_calls list of one delta: one or two entries, at most one per
\* call, in index order.
ToolCallDeltas ==
  {<<f>> : f \in Funcs}
    \cup {d \in Funcs \X Funcs : d[1].index < d[2].index}

\* The provider opens tool call i only after the calls before it:
\* opened calls are 0..n-1, and an entry either continues one of them or opens n.
RECURSIVE Conforms(_, _)
Conforms(n, delta) ==
  IF delta = <<>> THEN TRUE
  ELSE /\ delta[1].index <= n
       /\ Conforms(IF delta[1].index = n THEN n + 1 ELSE n, Tail(delta))

\* GPTAgent._handle_stream, `for func in choice["delta"]["tool_calls"]`:
\* an entry below the cached length is appended to that entry's arguments.
FoldFuncLast(cache, func) ==
  IF func.index < Len(cache)
  THEN [cache EXCEPT ![Len(cache)].arguments = @ \o func.arguments]
  ELSE Append(cache, func)

FoldFunc(cache, func) ==
  IF func.index < Len(cache)
  THEN [cache EXCEPT ![func.index + 1].arguments = @ \o func.arguments]
  ELSE Append(cache, func)

RECURSIVE FoldFuncs(_, _)
FoldFuncs(cache, delta) ==
  IF delta = <<>> THEN cache
  ELSE FoldFuncs(FoldFunc(cache, delta[1]), Tail(delta))

\* choice_cache: whether a choice was cached, and its message's tool_calls.
ChoiceCache(choice, tool_calls) == [choice |-> choice, tool_calls |-> tool_calls]

\* GPTAgent._handle_stream on a delta that carries tool_calls: the first
\* delta of the stream becomes the cached message; later ones are folded in
\* (or become the list when the cached message has none).
GPT_fold_tool_calls(cache, delta) ==
  IF ~cache.choice THEN ChoiceCache(TRUE, delta)
  ELSE IF cache.tool_calls # <<>>
       THEN ChoiceCache(TRUE, FoldFuncs(cache.tool_calls, delta))
       ELSE ChoiceCache(TRUE, delta)

\* ClaudeAgent._handle_stream, input_json_delta.
Claude_fold_json(cache, partial_json) ==
  IF cache = None THEN partial_json ELSE cache \o partial_json

InitFold ==
  /\ fold_pc = "idle"
  /\ tool_calls_cache = ChoiceCache(FALSE, <<>>)
  /\ json_cache = None
  /\ block_open = FALSE
  /\ parsed_args = <<>>
  /\ arg_fragments = <<>>

\* ---------------------------------------------------------- provider clients
\* api_request(self, endpoint, data, retry=3)
RetryBudget == 3

\* The status codes a provider answers a POST with.
Statuses == {200, 429, 400, 500}

\* time.sleep((4 - retry) * 10)
BackoffFlat(r) == 10

Backoff(r) == (4 - r) * 10

\* `if response.status_code == 429 and retry > 0`
RetryableAny(status, r) == status # 200 /\ r > 0

Retryable(status, r) == status = 429 /\ r > 0

\* Exception(f"... failed with status code {status_code} {text}") of the
\* OpenAI and Anthropic clients; requests' HTTPError of raise_for_status.
ClientError(type, status) == [type |-> type, status |-> status, body |-> type = "Exception"]

NoError == [type |-> "none", status |-> 0, body |-> FALSE]

InitApi ==
  /\ client_pc = "idle"
  /\ retry = 0
  /\ data_stream = FALSE
  /\ statuses = <<>>
  /\ sleeps = <<>>
  /\ client_result = "none"
  /\ client_error = NoError

\* ------------------------------------------------------------ event dispatch
MaxSubscriptions == 3

MaxPublishes == 2

\* schema.py Event
Kinds == {"NEW_CHAT_TOKEN", "USE_TOOL", "FINISH_CHAT"}

\* A subscribed callback: the kind it was subscribed to, the number of the
\* subscription, and whether calling it raises.
Callback(kind, n, raises) == [kind |-> kind, n |-> n, raises |-> raises]

\* BaseAgent.__init__ subscribes its own on_finish_chat first.
BaseCallback == Callback("FINISH_CHAT", 0, FALSE)

\* SimpleEventManager.subscribe: self.listeners[event_name].append(listener)
\* (the first definition would put the new listener first).
SubscribeFirst(ls, kind, callback) == [ls EXCEPT ![kind] = <<callback>> \o @]

Subscribe(ls, kind, callback) == [ls EXCEPT ![kind] = Append(@, callback)]

\* SimpleEventManager.publish: `for listener in self.listeners[event_name]`
ListenersOfAll(ls, kind) ==
  ls["NEW_CHAT_TOKEN"] \o ls["USE_TOOL"] \o ls["FINISH_CHAT"]

ListenersOf(ls, kind) == ls[kind]

\* The loop calls the listeners in list order; a listener that raises ends it.
RECURSIVE Invoked(_)

InvokedIsolated(list) == list

Invoked(list) ==
  IF list = <<>> THEN <<>>
  ELSE IF list[1].raises THEN <<list[1]>>
  ELSE <<list[1]>> \o Invoked(Tail(list))

PublishRaises(list) == \E i \in DOMAIN list : list[i].raises

\* Whether the agent publishes this kind of event inside a try block:
\* publish_new_chat_token in _handle_stream, publish_use_tool in run_tool
\* before its try (ClaudeAgent: in _client_chat), publish_finish_chat in chat.
InsideTry(p, kind) == FALSE

InitDispatch ==
  /\ listeners = [k \in Kinds |-> IF k = "FINISH_CHAT" THEN <<BaseCallback>> ELSE <<>>]
  /\ subscribed = <<BaseCallback>>
  /\ publishes = 0
  /\ last_publish = [kind |-> "none", seen |-> 0]
  /\ invoked = <<>>
  /\ publish_outcome = "none"
  /\ publisher_outcome = "none"

\* ------------------------------------------------------------ configuration
\* schema.py BaseConfig: the fields every AgentConfig has.
BaseConfigFields ==
  {"model_name", "system_prompt", "temperature", "top_p", "seed", "max_tokens",
   "json_output", "enable_history", "max_retry", "timeout", "stream",
   "enable_magic_placeholders", "verbose", "execute_tools", "use_tools"}

\* gpt/agent.py AgentConfig adds fields; the Claude and Gemini ones add none.
ConfigFields(p) ==
  BaseConfigFields \cup
    (IF p = "gpt"
     THEN {"frequency_penalty", "use_azure", "azure_endpoint", "response_format"}
     ELSE {})

\* The keyword names a constructor call is given here.
KwargNames == {"stream", "max_tokens", "frequency_penalty", "unknown_option"}

\* AgentConfig(**kwargs) with extra="forbid": a name that is no field is an error.
AgentConfigAccepts(p, kwargs) == kwargs \subseteq ConfigFields(p)

\* GPTAgent.__init__ / ClaudeAgent.__init__ / GeminiAgent.__init__:
\* `if config is None: config = AgentConfig(**kwargs)`, then
\* BaseAgent.__init__(config=config, ..., **kwargs), which takes any keyword.
AgentInit(p, config, kwargs) ==
  IF ~config /\ ~AgentConfigAccepts(p, kwargs) THEN "ValidationError"
  ELSE "constructed"

InitCtor ==
  /\ ctor_config = FALSE
  /\ ctor_kwargs = {}
  /\ ctor_outcome = "none"

\* ------------------------------------------------- Gemini content conversion
\* An image reference: a data URI, a URL or a local path, with the MIME type
\* and the base64 text of the bytes it stands for.
ImageRef(scheme, mime, data) == [scheme |-> scheme, mime |-> mime, data |-> data]

ImageRefs ==
  {ImageRef(sc, m, d) : sc \in {"data", "https", "path"},
                        m \in {"image/png", "image/jpeg"}, d \in {"aGk="}}

\* utils.convert_image_to_base64_uri: a data URI is returned as it is,
\* a URL or a path is read and encoded into a data URI.
convert_image_to_base64_uri(ref) == ImageRef("data", ref.mime, ref.data)

\* A JSON text: the value it denotes and the layout it is written in.
\* json.dumps writes ", " and ": " separators.
Json(value, layout) == [value |-> value, layout |-> layout]

JsonTexts == {Json(v, l) : v \in {"{}", "{x:1}"}, l \in {"dumps", "compact"}}

json_loads(j) == j.value

json_dumps(value) == Json(value, "dumps")

\* schema.py TextContent, ImageContent, ToolUseContent, ToolUseResultMessage
CanonicalText(t) == [type |-> "text", text |-> t]

CanonicalImage(ref) == [type |-> "image_url", url |-> ref]

CanonicalToolUse(index, id, name, arguments) ==
  [type |-> "function", index |-> index, id |-> id, name |-> name,
   arguments |-> arguments]

CanonicalToolResult(id, name, content) ==
  [type |-> "tool_result", tool_call_id |-> id, name |-> name, content |-> content]

CallIds == {"call_1", "call_2"}

\* the values uuid.uuid4() can return
Uuids == {"uuid_1", "uuid_2"}

ToolNames == {"calculator", "current_time"}

Canonicals ==
  {CanonicalText(t) : t \in {"", "hello"}}
    \cup {CanonicalImage(ref) : ref \in ImageRefs}
    \cup {CanonicalToolUse(i, id, n, a) :
            i \in {0, 1}, id \in CallIds, n \in ToolNames, a \in JsonTexts}
    \cup {CanonicalToolResult(id, n, c) :
            id \in CallIds, n \in ToolNames, c \in {"4", "Error"}}

\* gemini/client.py _serialize_content and _convert_to_gemini_message,
\* GeminiToolCallPart.from_tool_use_content, GeminiContent.from_tool_use_message
_serialize_content(c) ==
  CASE c.type = "text" -> [part |-> "text", text |-> c.text]
    [] c.type = "image_url" ->
         LET uri == convert_image_to_base64_uri(c.url)
         IN [part |-> "inlineData", mimeType |-> uri.mime, data |-> uri.data]
    [] c.type = "function" ->
         [part |-> "functionCall", name |-> c.name, args |-> json_loads(c.arguments)]
    [] c.type = "tool_result" ->
         [part |-> "functionResponse", name |-> c.name, content |-> c.content]

\* gemini/schema.py to_standard_content of each part class
to_standard_content(part, uuid) ==
  CASE part.part = "text" -> CanonicalText(part.text)
    [] part.part = "inlineData" ->
         CanonicalImage(ImageRef("none", "none", part.data))
    [] part.part = "functionCall" ->
         CanonicalToolUse(-1, uuid, part.name, json_dumps(part.args))
    [] part.part = "functionResponse" -> [type |-> "NotImplementedError"]

NoContent == [type |-> "none"]

InitRt ==
  /\ rt_pc = "none"
  /\ canonical = NoContent
  /\ wire = NoContent
  /\ restored = NoContent

NoArgs == [return_complex |-> FALSE, stream |-> FALSE, image |-> FALSE,
           prefill |-> FALSE]

Init ==
  /\ provider \in Providers
  /\ enable_history \in BOOLEAN
  \* only GPTAgent puts the system prompt into the message list
  /\ system_prompt \in (IF provider = "gpt" THEN BOOLEAN ELSE {TRUE})
  /\ history = <<>>
  /\ token_usage = TokenUsage(0, 0)
  /\ pc = "idle"
  /\ callNo = 0
  /\ args = NoArgs
  /\ assembled = <<>>
  /\ messages = <<>>
  /\ sent = <<>>
  /\ round = 0
  /\ response = NoResponse
  /\ toolIdx = 0
  /\ tool_result_content = <<>>
  /\ executed = <<>>
  /\ events = <<>>
  /\ outcome = "none"
  /\ error = "none"
  /\ callUsage = TokenUsage(0, 0)
  /\ usageBefore = TokenUsage(0, 0)
  /\ historyBefore = <<>>
  /\ toolCalls = 0
  /\ adds = 0
  /\ clean = TRUE
  /\ stream_events = <<>>
  /\ content_cache = None
  /\ tokens = <<>>
  /\ text = <<>>
  /\ stream_broken = FALSE
  /\ InitFold
  /\ InitApi
  /\ InitDispatch
  /\ InitCtor
  /\ InitRt
  /\ InitParse
  /\ InitParam
  /\ InitSig
  /\ InitTag
  /\ InitRegistry
  /\ InitLive
  /\ InitSse
  /\ InitBlk
  /\ InitGem
  /\ InitFin
  /\ InitMode
  /\ InitFactory

Config == <<provider, enable_history, system_prompt>>

\* BaseAgent.chat: the user turn, a text message and an optional image message.
UserTurn(call, image) ==
  <<from_text("user", call)>>
    \o (IF image THEN <<from_image("user", call)>> ELSE <<>>)

\* The locals of a chat call, before its first request.
NewCall ==
  /\ round' = 0
  /\ sent' = <<>>
  /\ response' = NoResponse
  /\ toolIdx' = 0
  /\ tool_result_content' = <<>>
  /\ executed' = <<>>
  /\ events' = <<>>
  /\ error' = "none"
  /\ toolCalls' = 0
  /\ callUsage' = TokenUsage(0, 0)
  /\ usageBefore' = token_usage
  /\ historyBefore' = history
  /\ stream_events' = <<>>
  /\ content_cache' = None
  /\ tokens' = <<>>
  /\ text' = <<>>
  /\ stream_broken' = FALSE

\* The chat call ends with an exception.
Raise(e) ==
  /\ pc' = "idle"
  /\ outcome' = "raised"
  /\ error' = e
  /\ clean' = FALSE

\* BaseAgent.chat up to the first provider request: the user turn, then the
\* agent's _chat: request assembly (and ClaudeAgent's prefill message).
Chat(return_complex, stream, image, prefill) ==
  /\ pc = "idle"
  /\ callNo + adds < MaxCalls
  /\ prefill => provider = "claude"
  /\ LET call == callNo + 1
         msgs == Assemble(provider, UserTurn(call, image))
     IN /\ callNo' = call
        /\ assembled' = msgs
        /\ messages' = msgs \o (IF prefill THEN <<PrefillMessage(call)>> ELSE <<>>)
  /\ args' = [return_complex |-> return_complex, stream |-> stream,
              image |-> image, prefill |-> prefill]
  /\ pc' = "request"
  /\ outcome' = "running"
  /\ NewCall
  /\ UNCHANGED <<Config, history, token_usage, adds, clean>>
  /\ UNCHANGED sideVars

\* The provider client raises (transport error, exhausted retries); the
\* first definition would count the usage of the rounds before the failure.
ClientRaiseCounted ==
  /\ pc = "request"
  /\ round' = round + 1
  /\ sent' = messages
  /\ Raise("Transport")
  /\ token_usage' = update(token_usage, callUsage)
  /\ UNCHANGED <<Config, history, callNo, args, assembled, messages,
                 response, toolIdx, tool_result_content, executed, events,
                 callUsage, usageBefore, historyBefore, toolCalls, adds>>
  /\ UNCHANGED sideVars
  /\ UNCHANGED streamVars

ClientRaise ==
  /\ pc = "request"
  /\ round' = round + 1
  /\ sent' = messages
  /\ Raise("Transport")
  /\ UNCHANGED <<Config, history, token_usage, callNo, args, assembled, messages,
                 response, toolIdx, tool_result_content, executed, events,
                 callUsage, usageBefore, historyBefore, toolCalls, adds>>
  /\ UNCHANGED sideVars
  /\ UNCHANGED streamVars

\* The wire response cannot be turned into a ChatResponse.
\* ClaudeAgent._client_chat, non-streaming with a prefill: the first content
\* block must be a text block.
ParseFails(p, w) ==
  CASE p = "gpt" -> ParseFailsGPT(w)
    [] p = "gemini" -> ParseFailsGemini(w)
    [] p = "claude" -> args.prefill /\ round = 0 /\ ~args.stream /\ ~w.text

Parse(p, w, call, rnd) ==
  IF p = "gpt" THEN _parse_openai_message(w, call, rnd)
  ELSE ParseBlocks(w, call, rnd)

\* _client_chat: one provider request and its response, reassembled from the
\* stream when streaming (new-chat-token events are published on the way).
ClientChat(w) ==
  /\ pc = "request"
  /\ w \in WireResponses(provider, MaxToolCalls - toolCalls)
  /\ round' = round + 1
  /\ sent' = messages
  /\ events' = IF args.stream /\ w.text
               THEN Append(events, NewChatToken(round + 1))
               ELSE events
  /\ IF ParseFails(provider, w)
     THEN /\ Raise("Parse")
          /\ UNCHANGED <<response, toolIdx, tool_result_content, callUsage,
                         toolCalls>>
     ELSE /\ response' = ChatResponse(Parse(provider, w, callNo, round + 1),
                                      w.usage, NoMessage)
          /\ callUsage' = update(callUsage, w.usage)
          /\ toolCalls' = toolCalls
               + Len(ToolCallsOf(provider, Parse(provider, w, callNo, round + 1)))
          /\ toolIdx' = 1
          /\ tool_result_content' = <<>>
          /\ pc' = "tools"
          /\ UNCHANGED <<outcome, error, clean>>
  /\ UNCHANGED <<Config, history, token_usage, callNo, args, assembled, messages,
                 executed, usageBefore, historyBefore, adds>>
  /\ UNCHANGED sideVars
  /\ UNCHANGED streamVars

\* ---------------------------------------------------------------- tool loop
ToolResult(b, result) == Block("tool_result", b.id, b.name, result)

\* `for content in ...`: the block the loop handles at its i-th iteration.
LoopBlockReversed(calls, i) == calls[Len(calls) + 1 - i]

LoopBlock(calls, i) == calls[i]

\* One iteration of the loop over the response's tool-call blocks.
\* GPTAgent._process_chat and GeminiAgent._process_chat go through
\* BaseAgent.run_tool (publish, look the tool up, run it catching its
\* exceptions); GPTAgent decodes the argument string first.
\* ClaudeAgent._client_chat looks the tool up, publishes and runs it itself.
RunTool(ran) ==
  /\ pc = "tools"
  /\ toolIdx <= Len(ToolCallsOf(provider, response.message))
  /\ LET b == LoopBlock(ToolCallsOf(provider, response.message), toolIdx)
         next(result) ==
           /\ tool_result_content' = Append(tool_result_content, ToolResult(b, result))
           /\ toolIdx' = toolIdx + 1
           /\ UNCHANGED <<pc, outcome, error, clean>>
     IN CASE provider = "gpt" /\ b.payload = "notjson" ->
               /\ ran = "not"
               /\ next("Error: Invalid JSON in tool arguments")
               /\ UNCHANGED <<events, executed>>
          [] provider = "claude" /\ b.name \notin Registry ->
               /\ ran = "not"
               /\ Raise("KeyError")
               /\ UNCHANGED <<events, executed, tool_result_content, toolIdx>>
          [] provider # "claude" /\ b.payload = "json" /\ b.name \notin Registry ->
               /\ ran = "not"
               /\ events' = Append(events, UseTool(b.id))
               /\ Raise("KeyError")
               /\ UNCHANGED <<executed, tool_result_content, toolIdx>>
          [] b.payload = "json" /\ b.name \in Registry ->
               /\ ran \in {"returns", "raises"}
               /\ events' = Append(events, UseTool(b.id))
               /\ executed' = Append(executed, b.id)
               /\ IF ran = "returns" THEN next("ok")
                  ELSE IF provider = "claude"
                  THEN /\ Raise("Tool")
                       /\ UNCHANGED <<tool_result_content, toolIdx>>
                  ELSE next("Error: e")
  /\ UNCHANGED <<Config, history, token_usage, callNo, args, assembled, messages,
                 sent, round, response, callUsage, usageBefore,
                 historyBefore, toolCalls, adds>>
  /\ UNCHANGED sideVars
  /\ UNCHANGED streamVars

\* The messages that carry the tool results back to the provider.
ToolResultMessagesLast(p, call, results) ==
  IF p = "claude"
  THEN <<Message("user", "Message", call, TRUE, results, <<>>)>>
  ELSE <<Message("tool", "ToolUseResultMessage", call, TRUE,
                 <<results[Len(results)]>>, <<>>)>>

\* GPT and Gemini: one ToolUseResultMessage per result.
\* Claude: one user message whose content is the ToolResultContent blocks.
ToolResultMessages(p, call, results) ==
  IF p = "claude"
  THEN <<Message("user", "Message", call, TRUE, results, <<>>)>>
  ELSE [i \in 1..Len(results) |->
          Message("tool", "ToolUseResultMessage", call, TRUE,
                  <<results[i]>>, <<>>)]

\* `if tool_result_content:` decides whether another round is made.
RecurseOnce(rnd, results) == results # <<>> /\ rnd < 2

Recurse(rnd, results) == results # <<>>

LoopDone == pc = "tools" /\ toolIdx > Len(ToolCallsOf(provider, response.message))

\* The end of a tool round: the assistant message and the tool results are
\* appended and the agent calls itself for the follow-up round.
FollowUp ==
  /\ LoopDone
  /\ Recurse(round, tool_result_content)
  /\ messages' = messages \o <<response.message>>
                   \o ToolResultMessages(provider, callNo, tool_result_content)
  /\ pc' = "request"
  /\ UNCHANGED <<Config, history, token_usage, callNo, args, assembled, sent, round,
                 response, toolIdx, tool_result_content, executed, events, outcome,
                 error, callUsage, usageBefore,
                 historyBefore, toolCalls, adds, clean>>
  /\ UNCHANGED sideVars
  /\ UNCHANGED streamVars

\* ----------------------------------------------------------------- finalize
\* response.input_message as the agent's _chat sets it.
\* GPTAgent._chat: messages[1] if messages[0].role == Role.SYSTEM.value else
\* messages[0]; GeminiAgent._chat and ClaudeAgent._chat: messages[0].
InputMessage(p, msgs) ==
  IF p = "gpt" /\ msgs[1].role = "system" THEN msgs[2] ELSE msgs[1]

\* response.message.content[0].text can be read.
HasText(message) ==
  /\ message.has_content
  /\ message.content # <<>>
  /\ message.content[1].type = "text"

\* BaseAgent.__init__.on_finish_chat, the first FINISH_CHAT subscriber.
on_finish_chat_history(h, resp) == h \o <<resp.input_message, resp.message>>

on_finish_chat_usage(u, resp) == update(u, resp.usage)

\* The chat call returns to its caller.
Returned ==
  /\ pc' = "idle"
  /\ outcome' = "returned"
  /\ UNCHANGED <<error, clean>>

\* GPTAgent._chat / GeminiAgent._chat after _process_chat returned, then the
\* rest of BaseAgent.chat: publish finish-chat, return the response or its text.
FinalizeBase ==
  /\ provider # "claude"
  /\ LoopDone
  /\ ~Recurse(round, tool_result_content)
  /\ LET resp == [response EXCEPT !.input_message = InputMessage(provider, messages)]
     IN /\ response' = resp
        /\ events' = Append(events, FinishChat(resp))
        /\ token_usage' = on_finish_chat_usage(token_usage, resp)
        /\ history' = on_finish_chat_history(history, resp)
        /\ IF args.return_complex \/ HasText(resp.message)
           THEN Returned
           ELSE Raise("IndexError")
  /\ UNCHANGED <<Config, callNo, args, assembled, messages, sent, round, toolIdx,
                 tool_result_content, executed, callUsage, usageBefore,
                 historyBefore, toolCalls, adds>>
  /\ UNCHANGED sideVars
  /\ UNCHANGED streamVars

\* ClaudeAgent._chat after _client_chat returned: it publishes finish-chat
\* itself and returns the response or its text; BaseAgent.chat then publishes
\* finish-chat with what _chat returned and reads .message of it.
FinalizeClaude ==
  /\ provider = "claude"
  /\ LoopDone
  /\ ~Recurse(round, tool_result_content)
  /\ LET resp == [response EXCEPT !.input_message = InputMessage(provider, messages)]
         once == Append(events, FinishChat(resp))
     IN /\ response' = resp
        /\ IF args.return_complex
           THEN /\ events' = Append(once, FinishChat(resp))
                /\ token_usage' = on_finish_chat_usage(
                                     on_finish_chat_usage(token_usage, resp), resp)
                /\ history' = on_finish_chat_history(
                                 on_finish_chat_history(history, resp), resp)
                /\ Returned
           ELSE /\ token_usage' = on_finish_chat_usage(token_usage, resp)
                /\ history' = on_finish_chat_history(history, resp)
                /\ IF HasText(resp.message)
                   THEN /\ events' = Append(once, FinishChatStr)
                        /\ Raise("AttributeError")
                   ELSE /\ events' = once
                        /\ Raise("IndexError")
  /\ UNCHANGED <<Config, callNo, args, assembled, messages, sent, round, toolIdx,
                 tool_result_content, executed, callUsage, usageBefore,
                 historyBefore, toolCalls, adds>>
  /\ UNCHANGED sideVars
  /\ UNCHANGED streamVars

\* BaseAgent._add_history, reached by add_user_history and add_ai_history.
_add_history(role) ==
  /\ pc = "idle"
  /\ callNo + adds < MaxCalls
  /\ adds' = adds + 1
  /\ history' = IF enable_history THEN Append(history, from_text(role, 0))
                ELSE history
  \* the locals of the chat call that ended before are gone
  /\ outcome' = "none"
  /\ args' = NoArgs
  /\ assembled' = <<>>
  /\ messages' = <<>>
  /\ NewCall
  /\ UNCHANGED <<Config, token_usage, pc, callNo, clean>>
  /\ UNCHANGED sideVars

Next ==
  \/ \E rc, st, img, pf \in BOOLEAN : Chat(rc, st, img, pf)
  \/ /\ pc = "request"
     /\ \E w \in WireResponses(provider, MaxToolCalls) : ClientChat(w)
  \/ ClientRaise
  \/ \E ran \in {"not", "returns", "raises"} : RunTool(ran)
  \/ FollowUp
  \/ FinalizeBase
  \/ FinalizeClaude
  \/ \E role \in {"user", "assistant"} : _add_history(role)

Spec == Init /\ [][Next]_vars

\* ------------------------------------------------- streamed text responses
\* A provider response that is one text block.
TextWire == [text |-> TRUE, tools |-> <<>>, usage |-> TokenUsage(3, 2)]

\* _handle_stream, one iteration of `for event in stream` on a text delta.
_handle_stream(delta) ==
  /\ pc = "request"
  /\ args.stream
  /\ Len(stream_events) < MaxChunks
  /\ LET f == HandleDelta(provider, content_cache, delta, args.prefill)
     IN /\ content_cache' = f.cache
        /\ tokens' = tokens \o f.publish
        /\ events' = events \o [i \in DOMAIN f.publish |-> NewChatToken(round + 1)]
  /\ stream_events' = Append(stream_events, delta)
  /\ UNCHANGED <<Config, history, token_usage, pc, callNo, args, assembled,
                 messages, sent, round, response, toolIdx, tool_result_content,
                 executed, outcome, error, callUsage, usageBefore,
                 historyBefore, toolCalls,
                 adds, clean, text, stream_broken>>
  /\ UNCHANGED sideVars

\* The stream ends: _handle_stream returns the folded message and
\* _client_chat assembles the ChatResponse from it.
StreamEnds ==
  /\ pc = "request"
  /\ args.stream
  /\ stream_events # <<>>
  /\ text' = content_cache
  /\ round' = round + 1
  /\ sent' = messages
  /\ response' = ChatResponse(Parse(provider, TextWire, callNo, round + 1),
                              TextWire.usage, NoMessage)
  /\ callUsage' = update(callUsage, TextWire.usage)
  /\ toolIdx' = 1
  /\ tool_result_content' = <<>>
  /\ pc' = "tools"
  /\ UNCHANGED <<Config, history, token_usage, callNo, args, assembled, messages,
                 executed, events, outcome, error, usageBefore,
                 historyBefore, toolCalls, adds,
                 clean, stream_events, content_cache, tokens, stream_broken>>
  /\ UNCHANGED sideVars

NextStream ==
  \/ \E rc, pf \in BOOLEAN : Chat(rc, TRUE, FALSE, pf)
  \/ \E delta \in Deltas : _handle_stream(delta)
  \/ StreamEnds
  \/ FinalizeBase
  \/ FinalizeClaude

SpecStream == Init /\ [][NextStream]_vars

\* ------------------------------------------------------- broken streams
\* Where a text stream is cut: "nothing" before the first frame; "open"
\* after the opening frames and the deltas received so far, before the
\* closing frames (GPT: the usage chunk; Claude: content_block_stop and
\* message_delta); "closed" after these, with only the terminal marker
\* ([DONE]) or terminal event (message_stop) missing.  Gemini streams have
\* neither closing frames nor a terminal marker.
Cuts == {"nothing", "open", "closed"}

CutPossible(p, cut, n) ==
  /\ cut = "nothing" => n = 0
  /\ cut = "closed" => n >= 1 /\ p # "gemini"
  /\ (cut = "open" /\ p = "gemini") => n >= 1

\* The text of the message _handle_stream returns when the event sequence
\* just ends there, or None when building the ChatResponse from it raises
\* (GPT: message is None or usage is None; Claude and Gemini: message is
\* None).  Claude writes the cache into the block only at content_block_stop.
CutText(p, cut, cache) ==
  CASE cut = "nothing" -> None
    [] cut = "open" -> (CASE p = "gpt" -> None
                          [] p = "claude" -> <<>>
                          [] p = "gemini" -> cache)
    [] cut = "closed" -> cache

\* The connection closes in mid-stream.  Either the transport reports it
\* (iter_lines raises) or the line iterator just ends and _handle_stream
\* returns what it has folded so far.
StreamBreaks(cut, reported) ==
  /\ pc = "request"
  /\ args.stream
  /\ CutPossible(provider, cut, Len(stream_events))
  /\ stream_broken' = TRUE
  /\ round' = round + 1
  /\ sent' = messages
  /\ IF reported \/ CutText(provider, cut, content_cache) = None
     THEN /\ Raise(IF reported THEN "Transport" ELSE "TypeError")
          /\ UNCHANGED <<text, response, callUsage, toolIdx, tool_result_content>>
     ELSE /\ text' = CutText(provider, cut, content_cache)
          /\ response' = ChatResponse(Parse(provider, TextWire, callNo, round + 1),
                                      TextWire.usage, NoMessage)
          /\ callUsage' = update(callUsage, TextWire.usage)
          /\ toolIdx' = 1
          /\ tool_result_content' = <<>>
          /\ pc' = "tools"
          /\ UNCHANGED <<outcome, error, clean>>
  /\ UNCHANGED <<Config, history, token_usage, callNo, args, assembled, messages,
                 executed, events, usageBefore, historyBefore, toolCalls, adds,
                 stream_events, content_cache, tokens>>
  /\ UNCHANGED sideVars

NextBroken ==
  \/ \E rc, pf \in BOOLEAN : Chat(rc, TRUE, FALSE, pf)
  \/ \E delta \in Deltas : _handle_stream(delta)
  \/ \E cut \in Cuts, reported \in BOOLEAN : StreamBreaks(cut, reported)
  \/ FinalizeBase
  \/ FinalizeClaude

SpecBroken == Init /\ [][NextBroken]_vars

\* ------------------------------------- reassembly of streamed tool calls
\* A streamed response that carries tool calls is being consumed by
\* _handle_stream (GPTAgent, ClaudeAgent).
FoldStart ==
  /\ fold_pc = "idle"
  /\ provider \in {"gpt", "claude"}
  /\ fold_pc' = "stream"
  /\ UNCHANGED <<notFold, tool_calls_cache, json_cache, block_open, parsed_args,
                 arg_fragments>>

\* GPT: the stream opens with a delta that holds the role and no tool_calls.
GPT_role_delta ==
  /\ provider = "gpt"
  /\ fold_pc = "stream"
  /\ ~tool_calls_cache.choice
  /\ tool_calls_cache' = ChoiceCache(TRUE, <<>>)
  /\ UNCHANGED <<notFold, fold_pc, json_cache, block_open, parsed_args,
                 arg_fragments>>

\* GPT: a delta with a tool_calls list arrives.
GPT_tool_calls_delta(delta) ==
  /\ provider = "gpt"
  /\ fold_pc = "stream"
  /\ Len(arg_fragments) + Len(delta) <= MaxFragments
  /\ Conforms(Len(tool_calls_cache.tool_calls), delta)
  /\ tool_calls_cache' = GPT_fold_tool_calls(tool_calls_cache, delta)
  /\ arg_fragments' = arg_fragments \o delta
  /\ UNCHANGED <<notFold, fold_pc, json_cache, block_open, parsed_args>>

\* Claude: content_block_start of a tool_use block.
Claude_block_start ==
  /\ provider = "claude"
  /\ fold_pc = "stream"
  /\ ~block_open
  /\ Len(parsed_args) < MaxToolCalls
  /\ block_open' = TRUE
  /\ UNCHANGED <<notFold, fold_pc, tool_calls_cache, json_cache, parsed_args,
                 arg_fragments>>

\* Claude: content_block_delta with an input_json_delta for the open block.
Claude_json_delta(partial_json) ==
  /\ provider = "claude"
  /\ fold_pc = "stream"
  /\ block_open
  /\ Len(arg_fragments) < MaxFragments
  /\ json_cache' = Claude_fold_json(json_cache, partial_json)
  /\ arg_fragments' = Append(arg_fragments, Func(Len(parsed_args), partial_json))
  /\ UNCHANGED <<notFold, fold_pc, tool_calls_cache, block_open, parsed_args>>

\* Claude: content_block_stop; the cached partial_json is parsed (reading
\* the type of an empty cache slot raises).
Claude_block_stop ==
  /\ provider = "claude"
  /\ fold_pc = "stream"
  /\ block_open
  /\ IF json_cache = None
     THEN /\ fold_pc' = "raised"
          /\ UNCHANGED <<json_cache, block_open, parsed_args>>
     ELSE /\ parsed_args' = Append(parsed_args, json_cache)
          /\ json_cache' = None
          /\ block_open' = FALSE
          /\ UNCHANGED fold_pc
  /\ UNCHANGED <<notFold, tool_calls_cache, arg_fragments>>

\* The stream ends and _handle_stream returns the folded message.
FoldEnds ==
  /\ fold_pc = "stream"
  /\ provider = "gpt" => tool_calls_cache.choice
  /\ provider = "claude" => ~block_open
  /\ fold_pc' = "folded"
  /\ UNCHANGED <<notFold, tool_calls_cache, json_cache, block_open, parsed_args,
                 arg_fragments>>

\* GPTAgent._process_chat: json.loads of each tool call's arguments.
GPT_parse_arguments ==
  /\ provider = "gpt"
  /\ fold_pc = "folded"
  /\ parsed_args' = [i \in DOMAIN tool_calls_cache.tool_calls |->
                       tool_calls_cache.tool_calls[i].arguments]
  /\ fold_pc' = "parsed"
  /\ UNCHANGED <<notFold, tool_calls_cache, json_cache, block_open, arg_fragments>>

NextFold ==
  \/ FoldStart
  \/ GPT_role_delta
  \/ \E delta \in ToolCallDeltas : GPT_tool_calls_delta(delta)
  \/ Claude_block_start
  \/ \E partial_json \in Deltas : Claude_json_delta(partial_json)
  \/ Claude_block_stop
  \/ FoldEnds
  \/ GPT_parse_arguments

SpecFold == Init /\ [][NextFold]_vars

\* -------------------------------------------------- one provider request
\* The client's chat is called: api_request with the default retry budget
\* (OpenAIClient, AnthropicClient) or GeminiClient.chat.
ClientCall(stream) ==
  /\ client_pc = "idle"
  /\ client_pc' = "post"
  /\ retry' = IF provider = "gemini" THEN 0 ELSE RetryBudget
  /\ data_stream' = stream
  /\ UNCHANGED <<notApi, statuses, sleeps, client_result, client_error>>

\* OpenAIClient.api_request / AnthropicClient.api_request: one POST and what
\* follows its response.
api_request(status) ==
  /\ provider \in {"gpt", "claude"}
  /\ client_pc = "post"
  /\ statuses' = Append(statuses, status)
  /\ IF status = 200
     THEN /\ client_pc' = "returned"
          /\ client_result' = IF data_stream THEN "stream" ELSE "json"
          /\ UNCHANGED <<retry, sleeps, client_error>>
     ELSE IF Retryable(status, retry)
     THEN /\ sleeps' = Append(sleeps, Backoff(retry))
          /\ retry' = retry - 1
          /\ UNCHANGED <<client_pc, client_result, client_error>>
     ELSE /\ client_pc' = "raised"
          /\ client_error' = ClientError("Exception", status)
          /\ UNCHANGED <<retry, sleeps, client_result>>
  /\ UNCHANGED <<notApi, data_stream>>

\* GeminiClient.chat: one POST, then response.raise_for_status().
Gemini_post(status) ==
  /\ provider = "gemini"
  /\ client_pc = "post"
  /\ statuses' = Append(statuses, status)
  /\ IF status >= 400
     THEN /\ client_pc' = "raised"
          /\ client_error' = ClientError("HTTPError", status)
          /\ UNCHANGED client_result
     ELSE /\ client_pc' = "returned"
          /\ client_result' = IF data_stream THEN "stream" ELSE "json"
          /\ UNCHANGED client_error
  /\ UNCHANGED <<notApi, retry, data_stream, sleeps>>

NextApi ==
  \/ \E stream \in BOOLEAN : ClientCall(stream)
  \/ \E status \in Statuses : api_request(status)
  \/ \E status \in Statuses : Gemini_post(status)

SpecApi == Init /\ [][NextApi]_vars

\* ----------------------------------------------------------- event manager
\* on_new_chat_token / on_tool_call / on_finish_chat: a callback is subscribed.
subscribe(kind, raises) ==
  /\ Len(subscribed) <= MaxSubscriptions
  /\ publisher_outcome # "raised"
  /\ LET callback == Callback(kind, Len(subscribed), raises)
     IN /\ listeners' = Subscribe(listeners, kind, callback)
        /\ subscribed' = Append(subscribed, callback)
  /\ UNCHANGED <<notDispatch, publishes, last_publish, invoked, publish_outcome,
                 publisher_outcome>>

\* The agent publishes an event during a chat call: SimpleEventManager.publish
\* runs the listeners of that kind one after another before it returns.
publish(kind) ==
  /\ publishes < MaxPublishes
  /\ publisher_outcome # "raised"
  /\ publishes' = publishes + 1
  /\ last_publish' = [kind |-> kind, seen |-> Len(subscribed)]
  /\ LET list == ListenersOf(listeners, kind)
     IN /\ invoked' = Invoked(list)
        /\ publish_outcome' = IF PublishRaises(list) THEN "raised" ELSE "returned"
        /\ publisher_outcome' = IF PublishRaises(list) /\ ~InsideTry(provider, kind)
                                THEN "raised" ELSE "running"
  /\ UNCHANGED <<notDispatch, listeners, subscribed>>

NextDispatch ==
  \/ \E kind \in Kinds, raises \in BOOLEAN : subscribe(kind, raises)
  \/ \E kind \in Kinds : publish(kind)

SpecDispatch == Init /\ [][NextDispatch]_vars

\* ------------------------------------------------------------- construction
\* An agent of the provider's class is constructed.
construct(config, kwargs) ==
  /\ ctor_outcome = "none"
  /\ ctor_config' = config
  /\ ctor_kwargs' = kwargs
  /\ ctor_outcome' = AgentInit(provider, config, kwargs)
  /\ UNCHANGED notCtor

NextCtor == \E config \in BOOLEAN, kwargs \in SUBSET KwargNames : construct(config, kwargs)

SpecCtor == Init /\ [][NextCtor]_vars

\* ------------------------------------------------------ Gemini round trip
\* A canonical content is serialised for a Gemini request.
serialize(c) ==
  /\ provider = "gemini"
  /\ rt_pc = "none"
  /\ rt_pc' = "wire"
  /\ canonical' = c
  /\ wire' = _serialize_content(c)
  /\ UNCHANGED <<notRt, restored>>

\* The part comes back in a response and is converted to canonical content.
parse(uuid) ==
  /\ rt_pc = "wire"
  /\ rt_pc' = "back"
  /\ restored' = to_standard_content(wire, uuid)
  /\ UNCHANGED <<notRt, canonical, wire>>

NextRt ==
  \/ \E c \in Canonicals : serialize(c)
  \/ \E uuid \in Uuids : parse(uuid)

SpecRt == Init /\ [][NextRt]_vars

\* ------------------------------------------------- OpenAI message conversion
\* _assemble_chat_response hands the assistant message of a response to
\* _parse_openai_message.
parse_message(w) ==
  /\ provider = "gpt"
  /\ parse_pc = "none"
  /\ openai_msg' = w
  /\ IF ParseFailsGPT(w)
     THEN parse_pc' = "raised" /\ UNCHANGED parsed_msg
     ELSE /\ parse_pc' = "parsed"
          /\ parsed_msg' = _parse_openai_message(w, 1, 1)
  /\ UNCHANGED <<notParse, inspected>>

\* GPTAgent._process_chat: `if response.message.tool_calls:` and the loop over them.
inspect_tool_calls ==
  /\ parse_pc = "parsed"
  /\ parse_pc' = "inspected"
  /\ inspected' = ToolCallsOf("gpt", parsed_msg)
  /\ UNCHANGED <<notParse, openai_msg, parsed_msg>>

NextParse ==
  \/ \E w \in WireResponses("gpt", MaxToolCalls) : parse_message(w)
  \/ inspect_tool_calls

SpecParse == Init /\ [][NextParse]_vars

\* -------------------------------------------------------- request parameters
\* chat(...) on an agent with this configuration, up to the provider request.
send_request(config, kwargs) ==
  /\ ~request.sent
  /\ chat_config' = config
  /\ chat_kwargs' = kwargs
  /\ request' = [temperature |-> ClientRequest(provider, ChatParams(config, kwargs)).temperature,
                 max_tokens |-> ClientRequest(provider, ChatParams(config, kwargs)).max_tokens,
                 stream |-> ClientRequest(provider, ChatParams(config, kwargs)).stream,
                 tools |-> ClientRequest(provider, ChatParams(config, kwargs)).tools,
                 sent |-> TRUE]
  /\ UNCHANGED notParam

NextParam == \E config \in ChatConfigs, kwargs \in ChatKwargs : send_request(config, kwargs)

SpecParam == Init /\ [][NextParam]_vars

\* ------------------------------------------------------- function signatures
\* The signature of a tool that declares an argument schema is built.
build_with_args_schema(fields) ==
  /\ signature.outcome = "none"
  /\ sig_tool' = SchemaTool(fields)
  /\ signature' = build_function_signature(SchemaTool(fields))
  /\ UNCHANGED notSig

\* The signature of a tool without a schema is built from its _run method.
build_from_run(params) ==
  /\ signature.outcome = "none"
  /\ sig_tool' = PlainTool(params)
  /\ signature' = build_function_signature(PlainTool(params))
  /\ UNCHANGED notSig

\* (the guard of both actions stands first, so that the tools are enumerated
\* only where a signature can be built)
NextSig ==
  \/ /\ signature.outcome = "none"
     /\ \E fields \in SeqsUpTo(Fields, MaxParams) : build_with_args_schema(fields)
  \/ /\ signature.outcome = "none"
     /\ \E params \in SeqsUpTo(Params, MaxParams) : build_from_run(params)

SpecSig == Init /\ [][NextSig]_vars

\* -------------------------------------------------------------- content tags
\* A content block of a provider response is parsed (the OpenAI response
\* carries a string, not blocks).
parse_content(tag) ==
  /\ tagged.direction = "none"
  /\ provider # "gpt"
  /\ tagged' = [direction |-> "parse", tag |-> tag]
  /\ converted' = ParseContent(provider, tag)
  /\ UNCHANGED notTag

\* A content block of a request message is serialised.
serialize_content(tag) ==
  /\ tagged.direction = "none"
  /\ tagged' = [direction |-> "serialize", tag |-> tag]
  /\ converted' = SerializeContent(provider, tag)
  /\ UNCHANGED notTag

NextTag ==
  \/ \E tag \in ContentTags : parse_content(tag)
  \/ \E tag \in ContentTags : serialize_content(tag)

SpecTag == Init /\ [][NextTag]_vars

\* ------------------------------------------------------------- tool registry
\* BaseAgent.__init__(config, tools): the registry is built.
init_tools(arg) ==
  /\ tools_arg.kind = "unset"
  /\ tools_arg' = arg
  /\ self_tools' = BuildRegistry(arg)
  /\ UNCHANGED notRegistry

NextRegistry == \E arg \in ToolsArgs : init_tools(arg)

SpecRegistry == Init /\ [][NextRegistry]_vars

\* -------------------------------------------------------- progress of a chat
\* chat is called and reaches the first provider request.
LiveChat(stream) ==
  /\ live_pc = "idle"
  /\ live_pc' = "post"
  /\ live_stream' = stream
  /\ live_retry' = IF provider = "gemini" THEN 0 ELSE RetryBudget
  /\ UNCHANGED <<notLive, live_left>>

\* One POST of the client and the provider's answer to it: api_request
\* (retry on 429 while budget is left) or GeminiClient.chat (raise_for_status).
\* A streamed answer carries a finite number of events.
LivePost(status, n) ==
  /\ live_pc = "post"
  /\ IF status = 200
     THEN /\ live_pc' = IF live_stream THEN "stream" ELSE "answer"
          /\ live_left' = IF live_stream THEN n ELSE 0
          /\ UNCHANGED live_retry
     ELSE IF provider # "gemini" /\ Retryable(status, live_retry)
     THEN /\ live_retry' = live_retry - 1
          /\ UNCHANGED <<live_pc, live_left>>
     ELSE /\ live_pc' = "raised"
          /\ UNCHANGED <<live_retry, live_left>>
  /\ UNCHANGED <<notLive, live_stream>>

\* _handle_stream: one iteration of `for event in stream`, or its end.
LiveStreamEvent ==
  /\ live_pc = "stream"
  /\ IF live_left > 0
     THEN live_left' = live_left - 1 /\ UNCHANGED live_pc
     ELSE live_pc' = "answer" /\ UNCHANGED live_left
  /\ UNCHANGED <<notLive, live_retry, live_stream>>

\* _process_chat / _client_chat after the response is assembled: it carries
\* k tool calls; without any the call returns.
LiveAnswer(k) ==
  /\ live_pc = "answer"
  /\ live_pc' = IF k = 0 THEN "returned" ELSE "tools"
  /\ live_left' = k
  /\ UNCHANGED <<notLive, live_retry, live_stream>>

\* The tool loop: one tool is run, or the loop is done and the agent calls
\* itself with the results (`if tool_result_content: return self._process_chat`).
LiveRunTool ==
  /\ live_pc = "tools"
  /\ IF live_left > 0
     THEN live_left' = live_left - 1 /\ UNCHANGED <<live_pc, live_retry>>
     ELSE /\ live_pc' = "post"
          /\ live_retry' = IF provider = "gemini" THEN 0 ELSE RetryBudget
          /\ UNCHANGED live_left
  /\ UNCHANGED <<notLive, live_stream>>

NextLive ==
  \/ \E stream \in BOOLEAN : LiveChat(stream)
  \/ \E status \in Statuses, n \in 0..MaxChunks : LivePost(status, n)
  \/ LiveStreamEvent
  \/ \E k \in 0..MaxToolCalls : LiveAnswer(k)
  \/ LiveRunTool

\* The interpreter keeps executing and the provider answers every request.
SpecLive == Init /\ [][NextLive]_vars /\ WF_vars(NextLive)

\* ---------------------------------------------------------- streaming client
\* The provider answers a streaming request with a body.
sse_response(body) ==
  /\ sse_idx = 0
  /\ sse_lines' = body
  /\ sse_idx' = 1
  /\ UNCHANGED <<notSse, yielded, sse_done>>

\* _handle_streaming_response: one iteration of `for line in response.iter_lines()`.
sse_line ==
  /\ sse_idx >= 1
  /\ sse_idx <= Len(sse_lines)
  /\ ~sse_done
  /\ LET kind == sse_lines[sse_idx]
     IN /\ yielded' = IF Yields(provider, kind) THEN Append(yielded, sse_idx)
                      ELSE yielded
        /\ sse_done' = Breaks(provider, kind)
  /\ sse_idx' = sse_idx + 1
  /\ UNCHANGED <<notSse, sse_lines>>

\* The body is exhausted and the generator ends.
sse_end ==
  /\ sse_idx = Len(sse_lines) + 1
  /\ ~sse_done
  /\ sse_done' = TRUE
  /\ UNCHANGED <<notSse, sse_lines, sse_idx, yielded>>

NextSse ==
  \/ \E body \in Bodies : sse_response(body)
  \/ sse_line
  \/ sse_end

SpecSse == Init /\ [][NextSse]_vars

\* -------------------------------------------------- streamed content blocks
\* ClaudeAgent._handle_stream, case "message_start".
blk_message_start(prefill) ==
  /\ provider = "claude"
  /\ blk_pc = "idle"
  /\ blk_prefill' = prefill
  /\ blk_message' = BlockMessage(<<>>, StartUsage)
  /\ blk_pc' = "message"
  /\ UNCHANGED <<notBlk, blk_cache, blk_sent, blk_tokens>>

\* case "content_block_start": the block is appended to message["content"].
blk_content_block_start(type) ==
  /\ blk_pc = "message"
  /\ Len(blk_sent) < MaxBlocks
  /\ blk_message' = [blk_message EXCEPT !.content = Append(@, StartBlock(type))]
  /\ blk_sent' = Append(blk_sent, [type |-> type, deltas |-> <<>>])
  /\ blk_pc' = "block"
  /\ UNCHANGED <<notBlk, blk_prefill, blk_cache, blk_tokens>>

\* case "content_block_delta": a text_delta in a text block, an
\* input_json_delta in a tool_use block.
blk_content_block_delta(delta) ==
  /\ blk_pc = "block"
  /\ Len(blk_sent[Len(blk_sent)].deltas) < MaxDeltas
  /\ IF blk_sent[Len(blk_sent)].type = "text"
     THEN LET f == Claude_handle_stream(blk_cache.value, delta, blk_prefill)
          IN /\ blk_cache' = BlockCache("text_delta", f.cache)
             /\ blk_tokens' = blk_tokens \o f.publish
     ELSE /\ blk_cache' = BlockCache("input_json_delta",
                                     Claude_fold_json(blk_cache.value, delta))
          /\ UNCHANGED blk_tokens
  /\ blk_sent' = [blk_sent EXCEPT ![Len(blk_sent)].deltas = Append(@, delta)]
  /\ UNCHANGED <<notBlk, blk_pc, blk_prefill, blk_message>>

\* case "content_block_stop": `content_block_cache.get("type")` raises
\* AttributeError when no delta seeded the cache; otherwise the cached text
\* or parsed partial_json replaces the last block's and the cache is cleared.
blk_content_block_stop ==
  /\ blk_pc = "block"
  /\ IF blk_cache.type = "none"
     THEN /\ blk_pc' = "raised"
          /\ UNCHANGED <<blk_message, blk_cache>>
     ELSE /\ blk_message' = [blk_message EXCEPT
                               !.content[Len(blk_message.content)].value =
                                 blk_cache.value]
          /\ blk_cache' = NoBlockCache
          /\ blk_pc' = "message"
  /\ UNCHANGED <<notBlk, blk_prefill, blk_sent, blk_tokens>>

\* case "message_delta": the output count replaces the usage's.
blk_message_delta(output_tokens) ==
  /\ blk_pc \in {"message", "closing"}
  /\ blk_message' = [blk_message EXCEPT !.usage.output_tokens = output_tokens]
  /\ blk_pc' = "closing"
  /\ UNCHANGED <<notBlk, blk_prefill, blk_cache, blk_sent, blk_tokens>>

\* case "message_stop", the stream ends and the message is returned.
blk_message_stop ==
  /\ blk_pc = "closing"
  /\ blk_pc' = "returned"
  /\ UNCHANGED <<notBlk, blk_prefill, blk_message, blk_cache, blk_sent, blk_tokens>>

\* ClaudeAgent._client_chat without streaming: the provider's message with
\* the prefill prepended to content[0]["text"].
NonStreamBlocks(blocks, prefill) ==
  [i \in DOMAIN blocks |->
     ContentBlock(blocks[i].type,
                  IF i = 1 /\ prefill THEN PrefillText \o Concat(blocks[i].deltas)
                  ELSE Concat(blocks[i].deltas))]

NextBlk ==
  \/ \E prefill \in BOOLEAN : blk_message_start(prefill)
  \/ \E type \in BlockTypes : blk_content_block_start(type)
  \/ \E delta \in BlockDeltas : blk_content_block_delta(delta)
  \/ blk_content_block_stop
  \/ \E output_tokens \in OutputCounts : blk_message_delta(output_tokens)
  \/ blk_message_stop

SpecBlk == Init /\ [][NextBlk]_vars

\* ------------------------------------------------------ Gemini stream events
\* GeminiAgent._handle_stream is handed the stream.
gem_handle_stream ==
  /\ provider = "gemini"
  /\ gem_pc = "idle"
  /\ gem_pc' = "stream"
  /\ UNCHANGED <<notGem, gem_response, gem_events>>

\* One iteration of `for event in stream`: the first event becomes the
\* response, a later one is merged with GeminiResponse.update.
gem_event(event) ==
  /\ gem_pc = "stream"
  /\ Len(gem_events) < MaxEvents
  /\ gem_events' = Append(gem_events, event)
  /\ IF gem_response = NoGeminiResponse
     THEN /\ gem_response' = event
          /\ UNCHANGED gem_pc
     ELSE IF ContentUpdateRaises(gem_response.parts, event.parts)
          THEN /\ gem_pc' = "raised"
               /\ UNCHANGED gem_response
          ELSE /\ gem_response' =
                    GeminiResponse(ContentUpdate(gem_response.parts, event.parts),
                                   event.usage_metadata)
               /\ UNCHANGED gem_pc
  /\ UNCHANGED notGem

\* The stream ends and the response is returned.
gem_return ==
  /\ gem_pc = "stream"
  /\ gem_events # <<>>
  /\ gem_pc' = "returned"
  /\ UNCHANGED <<notGem, gem_response, gem_events>>

NextGem ==
  \/ gem_handle_stream
  \/ \E event \in GeminiEvents : gem_event(event)
  \/ gem_return

SpecGem == Init /\ [][NextGem]_vars

\* --------------------------------------------------- finish-chat subscribers
\* A response a chat call publishes: its messages carry the call's number.
FinishResponse(call, usage) ==
  ChatResponse(from_text("assistant", call), usage, from_text("user", call))

\* The bookkeeping after the first i listeners of the list were called:
\* BaseAgent's own on_finish_chat updates the usage and appends to the
\* history; a user's callback changes neither.
RECURSIVE AfterListeners(_, _, _, _)
AfterListeners(list, i, resp, book) ==
  IF i = 0 THEN book
  ELSE LET b == AfterListeners(list, i - 1, resp, book)
       IN IF list[i] = BaseCallback
          THEN Bookkeeping(on_finish_chat_usage(b.usage, resp),
                           on_finish_chat_history(b.history, resp))
          ELSE b

\* BaseAgent.on_finish_chat: a user's callback is subscribed.
fin_on_finish_chat(raises) ==
  /\ Len(fin_listeners["FINISH_CHAT"]) <= MaxSubscriptions
  /\ fin_listeners' =
       Subscribe(fin_listeners, "FINISH_CHAT",
                 Callback("FINISH_CHAT", Len(fin_listeners["FINISH_CHAT"]), raises))
  /\ UNCHANGED <<notFin, fin_usage, fin_history, fin_published, fin_before, fin_seen>>

\* publish_finish_chat(response): the listeners run in list order until one raises.
fin_publish_finish_chat(usage) ==
  /\ Len(fin_published) < MaxPublishes
  /\ LET resp == FinishResponse(Len(fin_published) + 1, usage)
         list == Invoked(ListenersOf(fin_listeners, "FINISH_CHAT"))
         book == Bookkeeping(fin_usage, fin_history)
         final == AfterListeners(list, Len(list), resp, book)
     IN /\ fin_published' = Append(fin_published, resp)
        /\ fin_before' = book
        /\ fin_seen' = [i \in DOMAIN list |->
                          LET b == AfterListeners(list, i - 1, resp, book)
                          IN Seen(list[i], b.usage, b.history)]
        /\ fin_usage' = final.usage
        /\ fin_history' = final.history
  /\ UNCHANGED <<notFin, fin_listeners>>

NextFin ==
  \/ \E raises \in BOOLEAN : fin_on_finish_chat(raises)
  \/ \E usage \in {TokenUsage(3, 2), TokenUsage(1, 4)} : fin_publish_finish_chat(usage)

SpecFin == Init /\ [][NextFin]_vars

\* ----------------------------------------------------------- Gemini tool mode
\* GeminiAgent._chat(messages, tool_mode, **kwargs) up to _process_chat.
mode_chat(tool_mode, temperature, max_tokens, with_tools) ==
  /\ provider = "gemini"
  /\ mode_pc = "idle"
  /\ mode_arg' = tool_mode
  /\ mode_params' = GeminiParams(tool_mode, temperature, max_tokens, with_tools)
  /\ mode_pc' = "request"
  /\ UNCHANGED <<notMode, mode_requests>>

\* _process_chat: self.client.chat(messages, **params); the response carries
\* function calls or not.
mode_client_chat(tool_calls) ==
  /\ mode_pc = "request"
  /\ Len(mode_requests) < MaxRounds
  /\ tool_calls => GeminiPayload(mode_params).mode \in {"ANY", "AUTO"}
  /\ mode_requests' = Append(mode_requests, GeminiPayload(mode_params))
  /\ mode_pc' = IF tool_calls THEN "tools" ELSE "returned"
  /\ UNCHANGED <<notMode, mode_arg, mode_params>>

\* _process_chat after a tool round: tool_mode is removed from params and
\* _process_chat calls itself.
mode_tool_round ==
  /\ mode_pc = "tools"
  /\ mode_params' = PopToolMode(mode_params)
  /\ mode_pc' = "request"
  /\ UNCHANGED <<notMode, mode_arg, mode_requests>>

NextMode ==
  \/ \E tool_mode \in GeminiToolModes \cup {"None"}, temperature \in Temperatures,
        max_tokens \in MaxTokenValues, with_tools \in BOOLEAN :
       mode_chat(tool_mode, temperature, max_tokens, with_tools)
  \/ \E tool_calls \in BOOLEAN : mode_client_chat(tool_calls)
  \/ mode_tool_round

SpecMode == Init /\ [][NextMode]_vars

\* ------------------------------------------------------------ agent factory
\* A call of get_agent.
call_get_agent(name, given) ==
  /\ agent.result = "none"
  /\ agent_name' = name
  /\ agent_provider' = given
  /\ agent' = get_agent(name, given)
  /\ UNCHANGED notFactory

NextFactory ==
  \E name \in AgentNames, given \in AgentProviders : call_get_agent(name, given)

SpecFactory == Init /\ [][NextFactory]_vars

\* ================================================================== claims
IsToolCallMessage(m) ==
  /\ m.role = "assistant"
  /\ \/ m.tool_calls # <<>>
     \/ \E i \in DOMAIN m.content : IsToolUse(m.content[i])

\* The assistant tool-call messages the running call has appended to its list.
ToolRounds ==
  Cardinality({i \in DOMAIN messages :
                 i > Len(assembled) /\ IsToolCallMessage(messages[i])})

\* Where the history starts in an assembled request.
SystemOffset == IF provider = "gpt" /\ system_prompt THEN 1 ELSE 0

FinishEvents == SelectSeq(events, LAMBDA e : e.type = "FINISH_CHAT")

\* How often a tool call's run operation was started.
Runs(id) == Cardinality({i \in DOMAIN executed : executed[i] = id})

\* id a precedes id b: an earlier round, or an earlier block of the same round.
Before(a, b) == a[1] < b[1] \/ (a[1] = b[1] /\ a[2] < b[2])

\* The ids of the tool results a message list carries, in list order.
RECURSIVE ResultIds(_)
ResultIds(msgs) ==
  IF msgs = <<>> THEN <<>>
  ELSE LET m == msgs[1]
           ids == [i \in DOMAIN m.content |-> m.content[i].id]
       IN (IF m.content # <<>> /\ m.content[1].type = "tool_result"
           THEN ids ELSE <<>>) \o ResultIds(Tail(msgs))

Increasing(ids) ==
  \A i, j \in DOMAIN ids : i < j => Before(ids[i], ids[j])

InOutPair(h, k) ==
  /\ h[2 * k - 1] = from_text("user", k)
  /\ h[2 * k].role = "assistant"
  /\ h[2 * k].call = k
  /\ ~IsToolCallMessage(h[2 * k])

C2_HistoryIsInOutPairs ==
  (enable_history /\ clean /\ adds = 0 /\ provider # "claude") =>
    LET n == IF pc = "idle" THEN callNo ELSE callNo - 1
    IN /\ Len(history) = 2 * n
       /\ \A k \in 1..n : InOutPair(history, k)
       /\ pc # "idle" =>
            assembled = SubSeq(assembled, 1, SystemOffset) \o history
                          \o UserTurn(callNo, args.image)

\* C3: with enable_history false the history stays empty.
C3_HistoryOnlyWhenEnabled == ~enable_history => history = <<>>

\* C4: with history disabled, the request assembled for a chat call is the
\* optional system message and the user turn of that call, and no message of
\* an earlier call is in any request the call sends.
C4_NoEarlierTurns ==
  ~enable_history =>
    /\ outcome # "none" =>
         assembled = (IF SystemOffset = 1 THEN <<SystemMessage>> ELSE <<>>)
                       \o UserTurn(callNo, args.image)
    /\ \A i \in DOMAIN sent : sent[i] = SystemMessage \/ sent[i].call = callNo

\* The second call has sent a request while the history list holds the first.
C4_Witness ==
  ~enable_history /\ callNo = 2 /\ sent # <<>> /\ history # <<>>

\* C5: a chat call that returns has published finish-chat exactly once, after
\* every other event of the call, with the final ChatResponse and the
\* originating input message as payload.
C5_FinishPublishedOnce ==
  outcome = "returned" =>
    /\ Len(FinishEvents) = 1
    /\ LET last == events[Len(events)]
       IN /\ last.type = "FINISH_CHAT"
          /\ last.payload = "ChatResponse"
          /\ last.response.message = response.message
          /\ last.response.input_message = from_text("user", callNo)

\* C6: token usage is the sum of the usage of every completed provider round.
\* Stated for the agents that publish finish-chat once a call (GPT, Gemini).
C6_UsageIsSumOfRounds ==
  (provider # "claude" /\ outcome = "returned") =>
    token_usage = update(usageBefore, callUsage)

\* The tail a completed tool round appends to the list its request carried.
RoundTail == SubSeq(messages, Len(sent) + 1, Len(messages))

C8_ToolErrorsAreCaught == ~(outcome = "raised" /\ error = "Tool")

\* C9: the tools of a response are executed one after another in block
\* order (a block is started only when every block before it has its
\* result), and the results are appended to the list in that order.
C9_ToolsInBlockOrder ==
  /\ Increasing(executed)
  /\ Increasing(ResultIds(messages))
  /\ pc = "tools" =>
       LET calls == ToolCallsOf(provider, response.message)
       IN /\ Len(tool_result_content) = toolIdx - 1
          /\ \A i \in 1..(toolIdx - 1) : tool_result_content[i].id = calls[i].id
          /\ \A i \in DOMAIN calls : Runs(calls[i].id) > 0 => i < toolIdx

\* Two tools of one response were executed and their results appended.
C9_Witness ==
  /\ Len(executed) = 2
  /\ executed[1][1] = executed[2][1]
  /\ Len(ResultIds(messages)) = 2

\* C10: when a streamed chat whose response is text has ended, chat has
\* returned, the in-order concatenation of the new-chat-token payloads is the
\* text chat returned, and that is the text the non-streaming path builds
\* from the same provider content.
C10_StreamedTextAgrees ==
  (pc = "idle" /\ stream_events # <<>>) =>
    /\ outcome = "returned"
    /\ Concat(tokens) = text
    /\ text = NonStreamText(provider, stream_events, args.prefill)

\* The fragments received for tool call i, concatenated in arrival order.
RECURSIVE FragmentsOf(_, _)
FragmentsOf(i, log) ==
  IF log = <<>> THEN <<>>
  ELSE (IF log[1].index = i THEN log[1].arguments ELSE <<>>)
         \o FragmentsOf(i, Tail(log))

\* C11: in stream reassembly the argument string of every tool call is the
\* concatenation of the fragments received for that call, in arrival order,
\* also when the fragments of several calls are interleaved; a string handed
\* to the JSON parser is that concatenation over the whole stream (GPT parses
\* nothing while the stream is being consumed, Claude parses a block when it
\* is stopped), never a prefix of it.
C11_ArgumentsAreConcatenated ==
  /\ \A i \in DOMAIN parsed_args :
       parsed_args[i] = FragmentsOf(i - 1, arg_fragments)
  /\ (provider = "gpt" /\ fold_pc = "stream") => parsed_args = <<>>
  /\ \A i \in DOMAIN tool_calls_cache.tool_calls :
       /\ tool_calls_cache.tool_calls[i].index = i - 1
       /\ tool_calls_cache.tool_calls[i].arguments = FragmentsOf(i - 1, arg_fragments)
  /\ json_cache # None => json_cache = FragmentsOf(Len(parsed_args), arg_fragments)
  /\ fold_pc = "parsed" =>
       \A k \in DOMAIN arg_fragments : arg_fragments[k].index < Len(parsed_args)

\* GPT parsed two calls whose fragments were interleaved: call 0 got a
\* non-empty fragment after call 1 was opened.
C11_Witness ==
  /\ fold_pc = "parsed"
  /\ Len(parsed_args) = 2
  /\ Len(arg_fragments) = 3
  /\ arg_fragments[2].index = 1
  /\ arg_fragments[3].index = 0
  /\ arg_fragments[3].arguments # <<>>
  /\ arg_fragments[1].arguments # <<>>

Last(seq) == seq[Len(seq)]

\* Every response but the latest was a 429 that was retried after a sleep.
RetriedSoFar ==
  /\ Len(sleeps) = (IF client_pc = "post" THEN Len(statuses) ELSE Len(statuses) - 1)
  /\ \A i \in 1..Len(sleeps) : statuses[i] = 429

\* C12: for the OpenAI and Anthropic clients one api_request call sends at
\* most four POSTs; it retries only after a 429, the delay before the i-th
\* retry is 10*i seconds, the first 200 ends the call with a result and no
\* further POST, and a 429 with the budget exhausted raises an error that
\* carries the status code and the body.
C12_BoundedRetry ==
  provider \in {"gpt", "claude"} =>
    /\ Len(statuses) <= 4
    /\ sleeps = [i \in 1..Len(sleeps) |-> 10 * i]
    /\ client_pc # "idle" => RetriedSoFar
    /\ (\E i \in DOMAIN statuses : statuses[i] = 200) =>
         /\ client_pc = "returned"
         /\ Last(statuses) = 200
         /\ client_result = (IF data_stream THEN "stream" ELSE "json")
    /\ (client_pc = "raised" /\ Last(statuses) = 429) =>
         /\ Len(statuses) = 4
         /\ client_error = [type |-> "Exception", status |-> 429, body |-> TRUE]

\* The fourth POST was answered with a 429 and the call raised.
C12_Witness ==
  /\ provider \in {"gpt", "claude"}
  /\ client_pc = "raised"
  /\ statuses = <<429, 429, 429, 429>>
  /\ sleeps = <<10, 20, 30>>

\* C13: a response whose status is neither 200 nor 429 is fatal at once:
\* api_request raises an error carrying the status code and the body after
\* that response, without a sleep and without another POST, on the first
\* attempt as well as on a retry.
C13_OtherStatusIsFatal ==
  provider \in {"gpt", "claude"} =>
    \A i \in DOMAIN statuses :
      statuses[i] \notin {200, 429} =>
        /\ i = Len(statuses)
        /\ client_pc = "raised"
        /\ client_error = [type |-> "Exception", status |-> statuses[i], body |-> TRUE]
        /\ Len(sleeps) = i - 1
        /\ client_result = "none"

\* A 500 on a retry that followed a 429.
C13_Witness ==
  /\ provider \in {"gpt", "claude"}
  /\ client_pc = "raised"
  /\ statuses = <<429, 500>>
  /\ sleeps = <<10>>

\* C14: all three provider clients recover a 429 locally by a bounded number
\* of retries with increasing delay; only a 429 that exhausts the budget is
\* raised to the caller.
C14_AllClientsRetry ==
  (client_pc = "raised" /\ Last(statuses) = 429) =>
    /\ Len(statuses) = RetryBudget + 1
    /\ Len(sleeps) = RetryBudget
    /\ \A i \in 1..(Len(sleeps) - 1) : sleeps[i] < sleeps[i + 1]

\* C15: when a streaming response ends before its terminal marker or event,
\* chat raises: it does not go on as if the round had completed, returns no
\* message, and publishes no finish-chat event.
C15_BrokenStreamRaises ==
  stream_broken =>
    /\ pc = "idle" => outcome = "raised"
    /\ FinishEvents = <<>>

\* The callbacks subscribed to the kind of the latest publish before it,
\* in subscription order.
SubscribedBefore ==
  SelectSeq(SubSeq(subscribed, 1, last_publish.seen),
            LAMBDA c : c.kind = last_publish.kind)

FirstRaising(list) ==
  CHOOSE i \in DOMAIN list : list[i].raises /\ \A j \in 1..(i - 1) : ~list[j].raises

\* C16: a publish invokes every callback subscribed to that kind and none
\* subscribed to another kind, each exactly once, in subscription order,
\* before it returns; subscriptions are never consumed, so later publishes
\* invoke them again.
C16_PublishInvokesSubscribers ==
  /\ \A k \in Kinds :
       listeners[k] = SelectSeq(subscribed, LAMBDA c : c.kind = k)
  /\ publish_outcome = "returned" => invoked = SubscribedBefore
  /\ \A i \in DOMAIN invoked : invoked[i].kind = last_publish.kind

\* The second publish of a kind invoked the same two subscribers again.
C16_Witness ==
  /\ publishes = 2
  /\ publish_outcome = "returned"
  /\ Len(invoked) = 2
  /\ Len(subscribed) = Len(invoked) + 2
  /\ last_publish.seen = Len(subscribed)

C18_UnknownOptionFails ==
  ctor_outcome # "none" =>
    (ctor_outcome = "constructed" <=> ctor_kwargs \subseteq ConfigFields(provider))

\* The payload the round trip has to keep, per content kind.
SamePayload(a, b) ==
  /\ a.type = b.type
  /\ CASE a.type = "text" -> a.text = b.text
       [] a.type = "image_url" -> a.url = b.url
       [] a.type = "function" ->
            a.id = b.id /\ a.name = b.name /\ a.arguments = b.arguments
       [] a.type = "tool_result" ->
            a.tool_call_id = b.tool_call_id /\ a.content = b.content
       [] OTHER -> FALSE

\* C19: a canonical content of any supported kind, serialised to the Gemini
\* wire form and converted back, has the same tag and the same payload.
C19_RoundTripPreserves ==
  rt_pc = "back" => SamePayload(canonical, restored)

\* C20: whenever the OpenAI assistant message carries tool calls, the
\* canonical message carries the same tool calls in the same order and the
\* tool loop inspects them, also when the message has a content string.
C20_ToolCallsSurviveParsing ==
  (parse_pc \in {"parsed", "inspected"} /\ openai_msg.tools # <<>>) =>
    /\ parsed_msg.tool_calls = ToolUses(openai_msg.tools, 1)
    /\ parse_pc = "inspected" => inspected = ToolUses(openai_msg.tools, 1)

\* content is null only when tool_calls is present.
ContentOrToolCalls(m) == m.has_content \/ m.tool_calls # <<>>

Chosen(key) ==
  IF chat_kwargs[key].given THEN chat_kwargs[key].value ELSE chat_config[key]

\* C22: temperature, max tokens and streaming in the request are the per-call
\* argument when one is given and the configured value otherwise, for every
\* provider and value (0 and False included); the tool list is sent exactly
\* when use_tools is set and a tool is registered.
C22_RequestParameters ==
  request.sent =>
    /\ request.temperature = Chosen("temperature")
    /\ request.max_tokens = Chosen("max_tokens")
    /\ request.stream = Chosen("stream")
    /\ request.tools = (chat_config.use_tools /\ chat_config.tools > 0)

\* The tool calls announced to the on_tool_call subscribers, in publish order.
RECURSIVE UseToolIds(_)
UseToolIds(evs) ==
  IF evs = <<>> THEN <<>>
  ELSE (IF evs[1].type = "USE_TOOL" THEN <<evs[1].id>> ELSE <<>>)
         \o UseToolIds(Tail(evs))

\* C23: an on_tool_call subscriber is invoked exactly once per tool executed
\* during a chat call, in execution order: the announced tool calls are the
\* executed ones, m invocations for m executed tools.
C23_OneToolCallEventPerExecution == UseToolIds(events) = executed

\* C24: for a tool with an argument schema, also one in which no field is
\* required, the descriptor is built, its properties are the schema's and its
\* required list is the list of the schema's required fields.
C24_SchemaSignature ==
  (signature.outcome # "none" /\ sig_tool.args_schema) =>
    /\ signature.outcome = "built"
    /\ signature.properties = [i \in DOMAIN sig_tool.fields |-> sig_tool.fields[i].type]
    /\ \A i \in DOMAIN sig_tool.fields :
         sig_tool.fields[i].required <=>
           \E j \in DOMAIN signature.required : signature.required[j] = i

\* The type the specification gives for an annotation.
SpecifiedType(annotation) ==
  CASE annotation \in {"int", "float"} -> "number"
    [] annotation = "str" -> "string"
    [] annotation = "bool" -> "boolean"
    [] annotation = "list" -> "list"
    [] annotation \in {"dict", "tuple", "set"} -> "object"
    [] annotation = "NoneType" -> "null"
    [] OTHER -> "unsupported"

C26_UnknownTagFails ==
  (tagged.direction # "none" /\ tagged.tag \notin SupportedTags) =>
    /\ converted.result \notin {"converted", "unchanged"}
    /\ converted.names = tagged.tag

\* C27: the registry maps each tool name of the supplied list to exactly one
\* tool, the one latest in the list with that name, and holds nothing else; a
\* missing or non-list, non-mapping argument yields an empty registry.
C27_RegistryLastWins ==
  /\ tools_arg.kind = "list" =>
       LET items == tools_arg.items
       IN /\ \A e \in self_tools :
               \E i \in DOMAIN items :
                 /\ e.key = items[i].name
                 /\ e.tool = items[i]
                 /\ \A j \in DOMAIN items : items[j].name = e.key => j <= i
          /\ \A i \in DOMAIN items :
               Cardinality({e \in self_tools : e.key = items[i].name}) = 1
  /\ tools_arg.kind \in {"None", "tuple"} => self_tools = {}

\* A list with two tools of one name followed by another tool was registered.
C27_Witness ==
  /\ tools_arg.kind = "list"
  /\ Len(tools_arg.items) = 3
  /\ tools_arg.items[1].name = tools_arg.items[2].name
  /\ Cardinality(self_tools) = 2

\* C28: a chat call raises only when the provider client raised; when every
\* request is answered, chat returns, also for a tool call that names a tool
\* that is not in the registry.
C28_RaisesOnlyFromClient == outcome = "raised" => error = "Transport"

Terminator ==
  IF \E i \in DOMAIN sse_lines : sse_lines[i] = "end"
  THEN CHOOSE i \in DOMAIN sse_lines :
         sse_lines[i] = "end" /\ \A j \in 1..(i - 1) : sse_lines[j] # "end"
  ELSE Len(sse_lines) + 1

\* C30: the OpenAI and Anthropic streaming clients yield exactly the events
\* of the "data:" lines before the terminator, in arrival order; blank and
\* other lines yield nothing; OpenAI yields nothing at or after "[DONE]",
\* Anthropic yields message_stop last, and no later line is read.
C30_YieldsDataLinesUntilTerminator ==
  (provider \in {"gpt", "claude"} /\ sse_idx >= 1) =>
    /\ \A i, j \in DOMAIN yielded : i < j => yielded[i] < yielded[j]
    /\ {yielded[i] : i \in DOMAIN yielded} =
         {i \in 1..(sse_idx - 1) :
            \/ sse_lines[i] = "data" /\ i < Terminator
            \/ provider = "claude" /\ i = Terminator}
    /\ sse_idx <= Terminator + 1
    /\ sse_idx = Terminator + 1 => sse_done

\* The stream ended at the terminator with events yielded and lines left unread.
C30_Witness ==
  /\ provider \in {"gpt", "claude"}
  /\ sse_done
  /\ Len(yielded) >= 2
  /\ Terminator < Len(sse_lines)
  /\ sse_lines[Len(sse_lines)] = "data"

\* The message the claim describes for the streamed blocks: each block with
\* the concatenation of its deltas.
FoldedBlocks ==
  [i \in DOMAIN blk_sent |->
     ContentBlock(blk_sent[i].type,
                  IF blk_sent[i].deltas = <<>> THEN StartBlock(blk_sent[i].type).value
                  ELSE Concat(blk_sent[i].deltas))]

\* C31: the fold of a well-framed Anthropic stream never fails, also on a
\* block without deltas, and returns the blocks in stream order, each with
\* the concatenation of its deltas, and the usage of message_start with the
\* output count of the last message_delta.
C31_FoldReturnsBlocks ==
  ~blk_prefill =>
    /\ blk_pc # "raised"
    /\ blk_pc = "returned" =>
         /\ blk_message.content = FoldedBlocks
         /\ blk_message.usage.input_tokens = StartUsage.input_tokens
         /\ blk_message.usage.output_tokens \in OutputCounts

\* Every streamed block is a text block that received a delta.
TextBlocksOnly ==
  /\ blk_sent # <<>>
  /\ \A i \in DOMAIN blk_sent :
       blk_sent[i].type = "text" /\ blk_sent[i].deltas # <<>>

\* C33: with a prefill, the streamed blocks equal those of the
\* non-streaming path (the prefix on the first block only), and the emitted
\* tokens together are the prefix followed by the streamed text.
C33_PrefillOnce ==
  (blk_pc = "returned" /\ blk_prefill /\ TextBlocksOnly) =>
    /\ blk_message.content = NonStreamBlocks(blk_sent, TRUE)
    /\ Concat(blk_tokens) =
         PrefillText \o Concat([i \in DOMAIN blk_sent |-> Concat(blk_sent[i].deltas)])

\* The parts of a list with every run of consecutive text parts merged.
RECURSIVE MergeTexts(_)
MergeTexts(parts) ==
  IF Len(parts) < 2 THEN parts
  ELSE IF parts[1].kind = "text" /\ parts[2].kind = "text"
       THEN MergeTexts(<<GeminiPart("text", parts[1].value \o parts[2].value)>>
                         \o SubSeq(parts, 3, Len(parts)))
       ELSE <<parts[1]>> \o MergeTexts(Tail(parts))

\* C32: for events that each carry a part, the Gemini fold never fails, and
\* the response it returns has the parts of all events in arrival order
\* with consecutive text parts merged and every other part kept, and the
\* usage of the last event.
C32_GeminiFold ==
  (\A i \in DOMAIN gem_events : gem_events[i].parts # <<>>) =>
    /\ gem_pc # "raised"
    /\ gem_pc = "returned" =>
         /\ gem_response.parts =
              MergeTexts(Concat([i \in DOMAIN gem_events |-> gem_events[i].parts]))
         /\ gem_response.usage_metadata = gem_events[Len(gem_events)].usage_metadata

\* A finish-chat event was published in the current call.
FinishPublished == \E i \in DOMAIN events : events[i].type = "FINISH_CHAT"

\* C34: when the provider client raised in any round of a chat call, no
\* finish-chat event was published for the call and the agent's token usage
\* and history are what they were before the call, also after tool rounds.
C34_ClientRaiseLeavesBookkeeping ==
  (outcome = "raised" /\ error = "Transport") =>
    /\ ~FinishPublished
    /\ token_usage = usageBefore
    /\ history = historyBefore

\* The client raised on a follow-up request, after a tool was executed and
\* its tool-call event published.
C34_Witness ==
  /\ outcome = "raised"
  /\ error = "Transport"
  /\ round >= 2
  /\ executed # <<>>
  /\ \E i \in DOMAIN events : events[i].type = "USE_TOOL"

\* C35: the agent's bookkeeping subscriber runs before every user
\* on_finish_chat callback: a user callback invoked with a response finds
\* the token usage already increased by the response's usage and the
\* history already ending with the response's input and output messages.
C35_BookkeepingBeforeUserCallbacks ==
  \A i \in DOMAIN fin_seen :
    fin_seen[i].callback # BaseCallback =>
      LET resp == fin_published[Len(fin_published)]
      IN /\ fin_seen[i].usage = update(fin_before.usage, resp.usage)
         /\ fin_seen[i].history =
              fin_before.history \o <<resp.input_message, resp.message>>

\* A second finish-chat was published to two user callbacks.
C35_Witness ==
  /\ Len(fin_published) = 2
  /\ Len(fin_seen) >= 3
  /\ fin_seen[3].callback # BaseCallback
  /\ fin_before.history # <<>>

\* The tool result GPTAgent._process_chat records for unparsable arguments.
InvalidJsonResult(b) == b.payload = "Error: Invalid JSON in tool arguments"

\* The results of the current round stand in the order of the tool calls:
\* a call with unparsable arguments was not run and not announced, and its
\* result is the error text.
InvalidJsonNotRun ==
  \A i \in DOMAIN tool_result_content :
    LET call == ToolCallsOf(provider, response.message)[i]
    IN call.payload = "notjson" =>
         /\ InvalidJsonResult(tool_result_content[i])
         /\ tool_result_content[i].id = call.id
         /\ \A j \in DOMAIN executed : executed[j] # call.id
         /\ \A j \in DOMAIN events :
              ~(events[j].type = "USE_TOOL" /\ events[j].id = call.id)

\* The request sent last carried the tool-result message of the result.
FollowUpSent(result) ==
  \E j \in DOMAIN sent :
    sent[j].cls = "ToolUseResultMessage" /\ sent[j].content = <<result>>

\* C36: in GPTAgent a tool call whose arguments are not valid JSON is not
\* run and not announced, its result is the invalid-JSON error text, and the
\* chat call does not end before the follow-up request with that result
\* was issued (the remaining tool calls of the response are processed).
C36_InvalidJsonToolCall ==
  provider = "gpt" =>
    /\ pc = "tools" => InvalidJsonNotRun
    /\ outcome \in {"raised", "returned"} =>
         \A i \in DOMAIN tool_result_content :
           InvalidJsonResult(tool_result_content[i]) =>
             FollowUpSent(tool_result_content[i])

\* C37: in GeminiAgent the caller's tool mode is sent with the first
\* request of a chat call only; every follow-up request after a tool round
\* is sent in mode AUTO, and the generation parameters and the tool list
\* are the same in all requests of the call.
C37_ToolModeFirstRequestOnly ==
  \A i \in DOMAIN mode_requests :
    /\ mode_requests[i].tools =>
         mode_requests[i].mode =
           (IF i = 1 /\ mode_arg # "None" THEN mode_arg ELSE "AUTO")
    /\ mode_requests[i].temperature = mode_requests[1].temperature
    /\ mode_requests[i].max_tokens = mode_requests[1].max_tokens
    /\ mode_requests[i].tools = mode_requests[1].tools

\* A call in mode ANY made a tool round and sent its follow-up in mode AUTO.
C37_Witness ==
  /\ mode_arg = "ANY"
  /\ Len(mode_requests) >= 2
  /\ mode_requests[1].mode = "ANY"
  /\ mode_requests[2].mode = "AUTO"

\* The agent class of a provider, and the one a model name starts with.
AgentOfProvider(given) ==
  CASE given = "openai" -> Constructed("GPTAgent")
    [] given = "anthropic" -> Constructed("ClaudeAgent")
    [] given = "gemini" -> Constructed("GeminiAgent")

AgentOfName(name) ==
  IF startswith(name, "gpt") \/ startswith(name, "o1") THEN Constructed("GPTAgent")
  ELSE IF startswith(name, "claude") THEN Constructed("ClaudeAgent")
  ELSE IF startswith(name, "gemini") THEN Constructed("GeminiAgent")
  ELSE Unsupported

\* C38: get_agent gives the agent of an explicitly given provider for any
\* name; without a provider it gives the agent the name's prefix selects
\* (gpt, o1, claude, gemini) and raises for any other name.
C38_AgentSelection ==
  agent.result # "none" =>
    agent = (IF agent_provider # "None" THEN AgentOfProvider(agent_provider)
             ELSE AgentOfName(agent_name))

====
